---- MODULE Spec2Model ----
(***************************************************************************)
(* Model of the ek-transcript audio pipeline: Chunker, Speaker Merger      *)
(* (cluster_speakers, resolve_overlaps, lambda_handler), Transcriber and   *)
(* Aggregator.  Each component has its own variables and its own           *)
(* specification; a specification keeps the other components idle.         *)
(*                                                                         *)
(* Time in the Chunker is in whole seconds.  Time in the Merger, the       *)
(* Transcriber and the Aggregator is in ticks of 0.25 s, so the coalescing *)
(* gap of 0.5 s is 2 ticks.                                                *)
(***************************************************************************)
EXTENDS Integers, Sequences, FiniteSets, TLC

VARIABLES
    ck_pc,          \* Chunker: "start" | "done" ("idle" outside SpecChunker)
    ck_T,           \* Chunker: total length T of the recording, seconds
    ck_chunks,      \* Chunker: the ChunkDescriptors emitted
    ro_pc,          \* resolve_overlaps: "ready" | "done" ("idle" elsewhere)
    all_segments,   \* resolve_overlaps: its argument, the candidate list
    merged,         \* resolve_overlaps: its return value
    env,            \* environment of the handlers: OUTPUT_BUCKET, TABLE_NAME
    store,          \* blob store: <<bucket, key>> -> body of the blob
    progress_table, \* progress table: interview_id -> [progress, current_step]
    ag_pc,          \* Aggregator: "ready" | "stored" | "returned" | "failed"
    ag_event,       \* Aggregator: the event of the invocation
    ag_segment_files, \* Aggregator: the SegmentFile list named by the event
    ag_local,       \* Aggregator: the local variable result (lines 117-124)
    ag_result,      \* Aggregator: the manifest returned to the driver
    ag_failure,     \* Aggregator: the step that raised, "none" if none did
    cs_pc,          \* cluster_speakers: "ready" | "done" ("idle" elsewhere)
    chunk_results,  \* cluster_speakers: its argument
    speaker_mapping, \* cluster_speakers: first component of its return value
    global_speaker_count, \* cluster_speakers: second component
    mg_pc,          \* Merger: "ready" | "stored" | "returned" | "failed"
    mg_event,       \* Merger: the event of the invocation
    mg_local,       \* Merger: the value of the return expression
    mg_result,      \* Merger: the manifest returned to the driver
    mg_failure,     \* Merger: the step that raised, "none" if none did
    tr_pc,          \* Transcriber: "ready" | "stored" | "returned" | "failed"
    tr_event,       \* Transcriber: the event of the invocation
    tr_local,       \* Transcriber: the value of the return expression
    tr_result,      \* Transcriber: the manifest returned to the driver
    tr_failure,     \* Transcriber: the step that raised, "none" if none did
    pg_call,        \* update_progress: the arguments of the last call
    pg_before,      \* update_progress: the progress table before the last call
    pg_ret,         \* update_progress: the value the last call returned
    dr_status,      \* Driver: "running" | "completed" | "failed" ("idle" elsewhere)
    dr_stage,       \* Driver: the number of the stage being run, 1..7
    dr_items,       \* Driver: stage -> item -> "pending" | "running" | "done" | "failed"
    dr_attempts,    \* Driver: item of the current stage -> invocations so far
    lb_pc,          \* label_to_speaker: "ready" | "done" ("idle" elsewhere)
    lb_unique,      \* label_to_speaker: len(unique_labels)
    lb_i,           \* label_to_speaker: the index i of enumerate(unique_labels)
    label_to_speaker, \* label_to_speaker: the letters given so far, by cluster id
    wk_pc,          \* Workers: worker -> position in the Transcriber handler
    wk_item,        \* Workers: worker -> the segment clip of its event
    wk_heard,       \* Workers: worker -> the clip its transcribe call read
    scratch,        \* Workers: content of /tmp/segment.wav, 0 if there is no file
    processed_messages, \* Webhook: the keys of the module-level dict
    meetings_table, \* Webhook: meeting_id -> [recording_status, recording_name]
    invocations,    \* Webhook: payloads given to lambda_client.invoke
    wh_event,       \* Webhook: the last event delivered
    wh_response,    \* Webhook: the value the last call returned
    wh_raised,      \* Webhook: the exception the last call let out, "none" if none
    wh_before,      \* Webhook: processed, table and invocations before the last call
    wh_runs,        \* Webhook: messageId -> calls that went past the duplicate check
    wh_deliveries,  \* Webhook: number of calls so far
    dl_pc,          \* Download: position in lambda_handler / download_recording
    dl_event,       \* Download: the event of the invocation
    dl_world,       \* Download: what the Meet API, Drive, S3 and DynamoDB will do
    dl_status,      \* Download: recording_status of the meeting
    dl_uploaded,    \* Download: the keys in the recordings bucket
    dl_result       \* Download: the value returned

ckVars == <<ck_pc, ck_T, ck_chunks>>

roVars == <<ro_pc, all_segments, merged>>

ioVars == <<env, store, progress_table>>

agVars == <<ag_pc, ag_event, ag_segment_files, ag_local, ag_result, ag_failure>>

csVars == <<cs_pc, chunk_results, speaker_mapping, global_speaker_count>>

mgVars == <<mg_pc, mg_event, mg_local, mg_result, mg_failure>>

trVars == <<tr_pc, tr_event, tr_local, tr_result, tr_failure>>

pgVars == <<pg_call, pg_before, pg_ret>>

drVars == <<dr_status, dr_stage, dr_items, dr_attempts>>

lbVars == <<lb_pc, lb_unique, lb_i, label_to_speaker>>

wkVars == <<wk_pc, wk_item, wk_heard, scratch>>

whVars == <<processed_messages, meetings_table, invocations, wh_event, wh_response,
            wh_raised, wh_before, wh_runs, wh_deliveries>>

dlVars == <<dl_pc, dl_event, dl_world, dl_status, dl_uploaded, dl_result>>

vars == <<ck_pc, ck_T, ck_chunks, ro_pc, all_segments, merged,
          env, store, progress_table,
          ag_pc, ag_event, ag_segment_files, ag_local, ag_result, ag_failure,
          cs_pc, chunk_results, speaker_mapping, global_speaker_count,
          mg_pc, mg_event, mg_local, mg_result, mg_failure,
          tr_pc, tr_event, tr_local, tr_result, tr_failure,
          pg_call, pg_before, pg_ret,
          dr_status, dr_stage, dr_items, dr_attempts,
          lb_pc, lb_unique, lb_i, label_to_speaker,
          wk_pc, wk_item, wk_heard, scratch,
          processed_messages, meetings_table, invocations, wh_event, wh_response,
          wh_raised, wh_before, wh_runs, wh_deliveries,
          dl_pc, dl_event, dl_world, dl_status, dl_uploaded, dl_result>>

Min(a, b) == IF a <= b THEN a ELSE b

Max(a, b) == IF a >= b THEN a ELSE b

Range(s) == {s[i] : i \in 1..Len(s)}

(***************************************************************************)
(* Chunker (spec section 4.1; its code is not among the source files).     *)
(***************************************************************************)

\* chunk_duration D, seconds
ChunkDuration == 510

\* overlap_duration O, seconds
OverlapDuration == 30

\* effective_window_end E, seconds
EffectiveWindowEnd == 480

\* Largest recording length explored, seconds
MaxT == 1100

\* Distance between the offsets of two adjacent chunks: D - O
ChunkStep == ChunkDuration - OverlapDuration

\* Number of chunks: every i with offset i*(D-O) < T
ChunkCount(T) == (T + ChunkStep - 1) \div ChunkStep

\* The descriptor of chunk i (0-based) of a recording of length T
ChunkDescriptor(i, T) ==
    LET offset == i * ChunkStep
    IN  [chunk_index     |-> i,
         offset          |-> offset,
         duration        |-> Min(ChunkDuration, T - offset),
         effective_start |-> IF i = 0 THEN offset
                                      ELSE offset + OverlapDuration \div 2,
         effective_end   |-> Min(offset + EffectiveWindowEnd, T)]

\* The dense list of descriptors of a recording of length T
MakeChunks(T) == [k \in 1..ChunkCount(T) |-> ChunkDescriptor(k - 1, T)]

ChunkerIdle == ck_pc = "idle" /\ ck_T = 0 /\ ck_chunks = <<>>

ResolveIdle == ro_pc = "idle" /\ all_segments = <<>> /\ merged = <<>>

\* A value for "no manifest", "no event"
None == [none |-> TRUE]

\* The empty blob store and the empty progress table
Empty == [x \in {} |-> None]

IoIdle ==
    /\ env = [OUTPUT_BUCKET |-> "", TABLE_NAME |-> ""]
    /\ store = Empty
    /\ progress_table = Empty

AggregatorIdle ==
    /\ ag_pc = "idle"
    /\ ag_event = None
    /\ ag_segment_files = <<>>
    /\ ag_local = None
    /\ ag_result = None
    /\ ag_failure = "none"

ClusterIdle ==
    /\ cs_pc = "idle"
    /\ chunk_results = <<>>
    /\ speaker_mapping = Empty
    /\ global_speaker_count = 0

MergerIdle ==
    /\ mg_pc = "idle"
    /\ mg_event = None
    /\ mg_local = None
    /\ mg_result = None
    /\ mg_failure = "none"

TranscriberIdle ==
    /\ tr_pc = "idle"
    /\ tr_event = None
    /\ tr_local = None
    /\ tr_result = None
    /\ tr_failure = "none"

ProgressIdle == pg_call = None /\ pg_before = Empty /\ pg_ret = FALSE

DriverIdle ==
    /\ dr_status = "idle"
    /\ dr_stage = 0
    /\ dr_items = <<>>
    /\ dr_attempts = <<>>

LabelIdle == lb_pc = "idle" /\ lb_unique = 0 /\ lb_i = 0 /\ label_to_speaker = <<>>

WorkersIdle == wk_pc = <<>> /\ wk_item = <<>> /\ wk_heard = <<>> /\ scratch = 0

WebhookIdle ==
    /\ processed_messages = {}
    /\ meetings_table = Empty
    /\ invocations = <<>>
    /\ wh_event = None
    /\ wh_response = None
    /\ wh_raised = "none"
    /\ wh_before = None
    /\ wh_runs = Empty
    /\ wh_deliveries = 0

DownloadIdle ==
    /\ dl_pc = "idle"
    /\ dl_event = None
    /\ dl_world = None
    /\ dl_status = ""
    /\ dl_uploaded = {}
    /\ dl_result = None

HandlersIdle ==
    AggregatorIdle /\ MergerIdle /\ TranscriberIdle /\ ProgressIdle /\ DriverIdle /\ LabelIdle /\ WorkersIdle /\ WebhookIdle /\ DownloadIdle

OthersIdleForChunker == ResolveIdle /\ ClusterIdle /\ IoIdle /\ HandlersIdle

OthersIdleForResolve == ChunkerIdle /\ ClusterIdle /\ IoIdle /\ HandlersIdle

OthersIdleForCluster == ChunkerIdle /\ ResolveIdle /\ IoIdle /\ HandlersIdle

OthersIdleForAggregator ==
    /\ ChunkerIdle /\ ResolveIdle /\ ClusterIdle /\ MergerIdle /\ TranscriberIdle
    /\ ProgressIdle /\ DriverIdle /\ LabelIdle /\ WorkersIdle /\ WebhookIdle /\ DownloadIdle

OthersIdleForMerger ==
    /\ ChunkerIdle /\ ResolveIdle /\ ClusterIdle /\ AggregatorIdle /\ TranscriberIdle
    /\ ProgressIdle /\ DriverIdle /\ LabelIdle /\ WorkersIdle /\ WebhookIdle /\ DownloadIdle

OthersIdleForTranscriber ==
    /\ ChunkerIdle /\ ResolveIdle /\ ClusterIdle /\ AggregatorIdle /\ MergerIdle
    /\ ProgressIdle /\ DriverIdle /\ LabelIdle /\ WorkersIdle /\ WebhookIdle /\ DownloadIdle

OthersIdleForProgress ==
    /\ ChunkerIdle /\ ResolveIdle /\ ClusterIdle
    /\ AggregatorIdle /\ MergerIdle /\ TranscriberIdle /\ DriverIdle /\ LabelIdle /\ WorkersIdle /\ WebhookIdle /\ DownloadIdle

OthersIdleForDriver ==
    /\ ChunkerIdle /\ ResolveIdle /\ ClusterIdle /\ IoIdle
    /\ AggregatorIdle /\ MergerIdle /\ TranscriberIdle /\ ProgressIdle /\ LabelIdle /\ WorkersIdle /\ WebhookIdle /\ DownloadIdle

InitChunker ==
    /\ ck_pc = "start"
    /\ ck_T \in 1..MaxT
    /\ ck_chunks = <<>>
    /\ OthersIdleForChunker

ChunkAudio ==
    /\ ck_pc = "start"
    /\ ck_chunks' = MakeChunks(ck_T)
    /\ ck_pc' = "done"
    /\ UNCHANGED <<ck_T, roVars, ioVars, agVars, csVars, mgVars, trVars, pgVars, drVars, lbVars, wkVars, whVars, dlVars>>

NextChunker == ChunkAudio

SpecChunker == InitChunker /\ [][NextChunker]_vars

\* t lies in the effective window of descriptor c
InWindow(c, t) == c.effective_start <= t /\ t < c.effective_end

\* C1: for every T > 0 the effective windows of the chunks are pairwise
\* disjoint and their union is exactly [0, T): every instant of [0, T) lies in
\* exactly one window, no window reaches outside [0, T), and the last chunk's
\* effective_end is T.
C1_CoverageClaim ==
    ck_pc = "done" =>
        /\ \A t \in 0..(ck_T - 1) :
              Cardinality({k \in 1..Len(ck_chunks) : InWindow(ck_chunks[k], t)}) = 1
        /\ \A k \in 1..Len(ck_chunks) :
              /\ 0 <= ck_chunks[k].effective_start
              /\ ck_chunks[k].effective_end <= ck_T
        /\ Len(ck_chunks) >= 1
        /\ ck_chunks[Len(ck_chunks)].effective_end = ck_T

(***************************************************************************)
(* Speaker Merger: resolve_overlaps                                        *)
(* src/lambdas/merge_speakers/lambda_function.py:129-175                   *)
(***************************************************************************)

\* Same-speaker candidates closer than this are coalesced: 0.5 s = 2 ticks
CoalesceGap == 2

\* Largest instant of the candidate timelines explored, ticks
MaxTime == 4

\* Largest number of candidates in one call of resolve_overlaps
MaxSegs == 2

GlobalSpeakers == {"SPEAKER_A", "SPEAKER_B"}

\* Mutant of ClipSegment: the candidate is taken as it is, unclipped
ClipSegmentUnclipped(seg) ==
    [start |-> seg.global_start, end |-> seg.global_end, speaker |-> seg.speaker]

\* Lines 152-160: the part of one candidate inside its effective window
ClipSegment(seg) ==
    [start   |-> Max(seg.global_start, seg.effective_start),
     end     |-> Min(seg.global_end, seg.effective_end),
     speaker |-> seg.speaker]

\* Lines 143-160: the clipped candidates that are not empty, in input order
RECURSIVE ClipSegments(_)
ClipSegments(segs) ==
    IF segs = <<>> THEN <<>>
    ELSE LET c == ClipSegment(Head(segs))
         IN  IF c.start < c.end THEN <<c>> \o ClipSegments(Tail(segs))
                                ELSE ClipSegments(Tail(segs))

\* x put into the list s, sorted by start, behind every element whose start is
\* not larger (list.sort is stable)
RECURSIVE InsertByStart(_, _)
InsertByStart(x, s) ==
    IF s = <<>> THEN <<x>>
    ELSE IF Head(s).start <= x.start
         THEN <<Head(s)>> \o InsertByStart(x, Tail(s))
         ELSE <<x>> \o s

\* Mutant of SortByStart: the sort is left out
SortByStartMissing(s) == s

\* Line 163: resolved.sort(key=lambda x: x["start"])
RECURSIVE SortByStart(_)
SortByStart(s) ==
    IF s = <<>> THEN <<>>
    ELSE InsertByStart(s[Len(s)], SortByStart(SubSeq(s, 1, Len(s) - 1)))

\* Mutant of CoalesceStep: same-speaker candidates are never coalesced
CoalesceStepAppendOnly(out, seg) == Append(out, seg)

\* Mutant of CoalesceStep: the speaker of the tail is not looked at
CoalesceStepAnySpeaker(out, seg) ==
    IF /\ out /= <<>>
       /\ seg.start - out[Len(out)].end < CoalesceGap
    THEN [out EXCEPT ![Len(out)].end = seg.end]
    ELSE Append(out, seg)

\* Lines 168-173: one step of the sweep, seg against the list built so far
CoalesceStep(out, seg) ==
    IF /\ out /= <<>>
       /\ out[Len(out)].speaker = seg.speaker
       /\ seg.start - out[Len(out)].end < CoalesceGap
    THEN [out EXCEPT ![Len(out)].end = seg.end]
    ELSE Append(out, seg)

\* Lines 166-173: the left-to-right sweep
RECURSIVE CoalesceFrom(_, _)
CoalesceFrom(out, s) ==
    IF s = <<>> THEN out
    ELSE CoalesceFrom(CoalesceStep(out, Head(s)), Tail(s))

resolve_overlaps(segs) == CoalesceFrom(<<>>, SortByStart(ClipSegments(segs)))

\* The effective windows explored: the whole timeline, and one that cuts both ends
Windows == {[lo |-> 0, hi |-> MaxTime], [lo |-> 1, hi |-> MaxTime - 1]}

\* The candidates explored: an interval [s, e) with 0 <= s < e <= MaxTime, a
\* global speaker and the effective window of the chunk it comes from
RawCandidates ==
    {[global_start    |-> s,
      global_end      |-> e,
      speaker         |-> sp,
      effective_start |-> w.lo,
      effective_end   |-> w.hi] :
        s \in 0..MaxTime, e \in 0..MaxTime, sp \in GlobalSpeakers, w \in Windows}

Candidates == {c \in RawCandidates : c.global_start < c.global_end}

InitResolve ==
    /\ ro_pc = "ready"
    /\ all_segments = <<>>
    /\ merged = <<>>
    /\ OthersIdleForResolve

\* One call of resolve_overlaps on a list of at most MaxSegs candidates
ResolveOverlaps ==
    /\ ro_pc = "ready"
    /\ \E n \in 0..MaxSegs : \E cs \in [1..n -> Candidates] :
          /\ all_segments' = cs
          /\ merged' = resolve_overlaps(cs)
    /\ ro_pc' = "done"
    /\ UNCHANGED <<ckVars, ioVars, agVars, csVars, mgVars, trVars, pgVars, drVars, lbVars, wkVars, whVars, dlVars>>

NextResolve == ResolveOverlaps

SpecResolve == InitResolve /\ [][NextResolve]_vars

\* Two segments share an instant
Overlapping(a, b) == a.start < b.end /\ b.start < a.end

\* No two clipped candidates of different speakers share an instant
NoCrossSpeakerOverlap(segs) ==
    LET r == ClipSegments(segs)
    IN  \A i, j \in 1..Len(r) :
            r[i].speaker /= r[j].speaker => ~Overlapping(r[i], r[j])

C3_SortedNonEmpty ==
    ro_pc = "done" =>
        /\ \A i \in 1..(Len(merged) - 1) : merged[i].start <= merged[i + 1].start
        /\ \A i \in 1..Len(merged) : merged[i].start < merged[i].end

\* C3 witness: candidates supplied in descending start order, one of them
\* clipped by its window, emitted as two segments
C3_Witness ==
    /\ ro_pc = "done"
    /\ Len(all_segments) = 2
    /\ all_segments[1].global_start > all_segments[2].global_start
    /\ \E i \in 1..2 : all_segments[i].global_start < all_segments[i].effective_start
    /\ Len(merged) = 2

\* The clipped candidates in the order of the sweep
Swept == SortByStart(ClipSegments(all_segments))

\* The positions of the sweep whose candidate has the speaker of the tail and
\* starts less than CoalesceGap after the tail's end; the tail's end is the
\* end of the candidate swept just before
Coalesced ==
    {i \in 2..Len(Swept) :
        /\ Swept[i].speaker = Swept[i - 1].speaker
        /\ Swept[i].start - Swept[i - 1].end < CoalesceGap}

\* C19: a candidate is coalesced into the tail exactly if it has the tail's
\* speaker and starts less than 0.5 s after the tail's end; candidates of
\* different speakers are never coalesced; consecutive output segments of one
\* speaker are at least 0.5 s apart.
C19_CoalesceIffSameSpeakerNear ==
    ro_pc = "done" =>
        /\ Len(merged) = Len(Swept) - Cardinality(Coalesced)
        /\ {merged[k].start : k \in 1..Len(merged)}
               = {Swept[i].start : i \in (1..Len(Swept)) \ Coalesced}
        /\ \A i \in 2..Len(Swept) :
              Swept[i].speaker /= Swept[i - 1].speaker =>
                  \E k \in 2..Len(merged) :
                      /\ merged[k].start = Swept[i].start
                      /\ merged[k].speaker = Swept[i].speaker
                      /\ merged[k - 1].speaker = Swept[i - 1].speaker
        /\ \A k \in 1..(Len(merged) - 1) :
              merged[k].speaker = merged[k + 1].speaker
                  => merged[k + 1].start - merged[k].end >= CoalesceGap

\* C19 witness: two candidates of one speaker with a gap below 0.5 s between
\* them were coalesced into one output segment
C19_Witness ==
    /\ ro_pc = "done"
    /\ Len(Swept) = 2
    /\ Swept[1].speaker = Swept[2].speaker
    /\ Swept[2].start - Swept[1].end > 0
    /\ Swept[2].start - Swept[1].end < CoalesceGap
    /\ merged = <<[start |-> Swept[1].start, end |-> Swept[2].end,
                   speaker |-> Swept[1].speaker]>>

\* The position in the output of the segment that took in the candidate at
\* position i of the sweep
OutputOf(i) == Cardinality((1..i) \ Coalesced)

\* C20: coalescing never shortens a segment: the end of an output segment is
\* never smaller than the end of any candidate merged into it, a candidate
\* contained in the tail included.
C20_NeverShortens ==
    ro_pc = "done" =>
        \A i \in 1..Len(Swept) : merged[OutputOf(i)].end >= Swept[i].end

\* The orders in which a list of n elements can be given
ListOrders(n) == {o \in [1..n -> 1..n] : \A a, b \in 1..n : o[a] = o[b] => a = b}

\* The list s given in the order o
Reordered(s, o) == [k \in 1..Len(s) |-> s[o[k]]]

\* C21: overlap reconciliation does not depend on the order of its input:
\* every permutation of the candidate list, candidates with equal start
\* included, produces the identical output segment list.
C21_InputOrderIndependent ==
    ro_pc = "done" =>
        \A o \in ListOrders(Len(all_segments)) :
            resolve_overlaps(Reordered(all_segments, o)) = merged

(***************************************************************************)
(* Speaker Merger: cluster_speakers                                        *)
(* src/lambdas/merge_speakers/lambda_function.py:57-126                    *)
(*                                                                         *)
(* Embeddings are integer vectors whose norm is an integer, so cosine      *)
(* similarities are exact hundredths.  Similarities and distances are in   *)
(* hundredths (0.75 is 75); a distance between clusters is the rational    *)
(* <<sum of the pairwise distances, number of pairs>>.                     *)
(* AgglomerativeClustering(n_clusters=None, distance_threshold, metric=    *)
(* "precomputed", linkage="average").fit_predict is modelled step by step: *)
(* SciPy's nearest-neighbour chain, the stable sort of the merges by       *)
(* distance, the relabelling of the merges into tree nodes, and            *)
(* scikit-learn's cut of the tree with a heap of nodes.  Points, slots and *)
(* tree nodes are numbered from 0 as in the libraries.                     *)
(***************************************************************************)

\* SIMILARITY_THRESHOLD, hundredths (0.75)
SIMILARITY_THRESHOLD == 75

\* Largest number of chunk results in one call
MaxChunks == 2

\* The embeddings explored: vA, vB and vC, with cosine similarities
\* vA-vC 0.8 (same speaker), vB-vC 0.6 and vA-vB 0 (different speakers)
Voices == {<<1, 0>>, <<0, 1>>, <<4, 3>>}

LocalSpeakers == <<"SPEAKER_00", "SPEAKER_01">>

Dot(u, v) == u[1] * v[1] + u[2] * v[2]

Norm(u) == CHOOSE r \in 0..(Dot(u, u)) : r * r = Dot(u, u)

\* Line 95: one entry of cosine_similarity(all_embeddings), hundredths
CosineSimilarity(u, v) == (100 * Dot(u, v)) \div (Norm(u) * Norm(v))

\* Mutant of Distance: the similarity is used as the distance
DistanceIsSimilarity(u, v) == CosineSimilarity(u, v)

\* Line 98: one entry of distance_matrix = 1 - similarity_matrix, hundredths
Distance(u, v) == 100 - CosineSimilarity(u, v)

\* Lines 71-81: the profiles of all chunk results in input order, each
\* [id |-> <<chunk_index, local_speaker>>, embedding |-> vector]
RECURSIVE CollectProfiles(_)
CollectProfiles(results) ==
    IF results = <<>> THEN <<>>
    ELSE LET result == Head(results)
         IN  [k \in 1..Len(result.speakers) |->
                 [id        |-> <<result.chunk_index, result.speakers[k].local_speaker>>,
                  embedding |-> result.speakers[k].embedding]]
             \o CollectProfiles(Tail(results))

\* a < b for rationals <<numerator, denominator>>; <<1, 0>> is infinity
RatLess(a, b) == a[1] * b[2] < b[1] * a[2]

Infinity == <<1, 0>>

\* Average distance between the clusters in slots x and i
SlotDistance(st, x, i) == <<st.S[<<x, i>>], st.size[x] * st.size[i]>>

\* nn_chain: the scan "for i in range(n)" for the slot nearest to x, from i on
RECURSIVE Nearest(_, _, _, _, _, _)
Nearest(st, n, x, i, y, current_min) ==
    IF i = n THEN [y |-> y, min |-> current_min]
    ELSE LET closer == /\ st.size[i] /= 0
                       /\ i /= x
                       /\ RatLess(SlotDistance(st, x, i), current_min)
         IN  Nearest(st, n, x, i + 1,
                     IF closer THEN i ELSE y,
                     IF closer THEN SlotDistance(st, x, i) ELSE current_min)

\* nn_chain: the scan from the last slot x of the chain, which prefers the
\* slot before x in the chain
NearestOfLast(st, n, chain) ==
    IF Len(chain) > 1
    THEN Nearest(st, n, chain[Len(chain)], 0, chain[Len(chain) - 1],
                 SlotDistance(st, chain[Len(chain)], chain[Len(chain) - 1]))
    ELSE Nearest(st, n, chain[Len(chain)], 0, 0, Infinity)

\* nn_chain: "while True", follow nearest neighbours until two are mutual;
\* r is the nearest slot of the last slot of the chain
RECURSIVE GrowChain(_, _, _, _)
GrowChain(st, n, chain, r) ==
    IF Len(chain) > 1 /\ r.y = chain[Len(chain) - 1]
    THEN [x |-> chain[Len(chain)], y |-> r.y, min |-> r.min,
          chain |-> SubSeq(chain, 1, Len(chain) - 2)]
    ELSE GrowChain(st, n, Append(chain, r.y), NearestOfLast(st, n, Append(chain, r.y)))

\* nn_chain: "if chain_length == 0", start from the first slot in use
StartChain(st, n) ==
    IF st.chain = <<>>
    THEN <<CHOOSE i \in 0..(n - 1) : st.size[i] > 0 /\ \A j \in 0..(i - 1) : st.size[j] = 0>>
    ELSE st.chain

\* nn_chain: merge slots x < y into slot y at distance dist, record the
\* merge, update the distances to slot y
MergeSlots(st, x, y, dist, chain) ==
    [S     |-> [ij \in DOMAIN st.S |->
                   IF ij[2] = y /\ ij[1] \notin {x, y} /\ st.size[ij[1]] /= 0
                   THEN st.S[<<ij[1], x>>] + st.S[<<ij[1], y>>]
                   ELSE IF ij[1] = y /\ ij[2] \notin {x, y} /\ st.size[ij[2]] /= 0
                   THEN st.S[<<ij[2], x>>] + st.S[<<ij[2], y>>]
                   ELSE st.S[ij]],
     size  |-> [st.size EXCEPT ![x] = 0, ![y] = st.size[x] + st.size[y]],
     chain |-> chain,
     rows  |-> Append(st.rows, [x |-> x, y |-> y, dist |-> dist])]

\* nn_chain: "if x > y: x, y = y, x" and the merge of the mutual neighbours g
MergeNeighbours(st, g) == MergeSlots(st, Min(g.x, g.y), Max(g.x, g.y), g.min, g.chain)

\* nn_chain: one iteration of "for k in range(n - 1)"
ChainMergeFrom(st, n, chain) ==
    MergeNeighbours(st, GrowChain(st, n, chain, NearestOfLast(st, n, chain)))

ChainMerge(st, n) == ChainMergeFrom(st, n, StartChain(st, n))

RECURSIVE ChainMerges(_, _, _)
ChainMerges(st, n, k) == IF k = 0 THEN st ELSE ChainMerges(ChainMerge(st, n), n, k - 1)

\* nn_chain up to the sort: the n - 1 merges in the order they are made
NNChain(profiles) ==
    LET n == Len(profiles)
    IN  ChainMerges([S     |-> [ij \in (0..(n - 1)) \X (0..(n - 1)) |->
                                  Distance(profiles[ij[1] + 1].embedding,
                                           profiles[ij[2] + 1].embedding)],
                     size  |-> [i \in 0..(n - 1) |-> 1],
                     chain |-> <<>>,
                     rows  |-> <<>>],
                    n, n - 1).rows

\* Stable insertion of a merge into merges sorted by distance
RECURSIVE InsertByDist(_, _)
InsertByDist(row, rows) ==
    IF rows = <<>> THEN <<row>>
    ELSE IF RatLess(row.dist, Head(rows).dist)
         THEN <<row>> \o rows
         ELSE <<Head(rows)>> \o InsertByDist(row, Tail(rows))

\* np.argsort(Z[:, 2], kind="mergesort")
RECURSIVE SortByDist(_)
SortByDist(rows) ==
    IF rows = <<>> THEN <<>>
    ELSE InsertByDist(rows[Len(rows)], SortByDist(SubSeq(rows, 1, Len(rows) - 1)))

\* label(Z, n): the sorted merges as pairs of tree nodes; root[p] is the node
\* of the cluster that holds point p so far
RECURSIVE LabelRows(_, _, _, _)
LabelRows(rows, n, root, children) ==
    IF rows = <<>> THEN children
    ELSE LET x_root == root[Head(rows).x]
             y_root == root[Head(rows).y]
             node   == n + Len(children)
         IN  LabelRows(Tail(rows), n,
                       [p \in DOMAIN root |->
                           IF root[p] \in {x_root, y_root} THEN node ELSE root[p]],
                       Append(children, <<Min(x_root, y_root), Max(x_root, y_root)>>))

\* _hc_get_descendent: the leaves below a tree node
RECURSIVE Descendants(_, _, _)
Descendants(node, children, n) ==
    IF node < n THEN {node}
    ELSE Descendants(children[node - n + 1][1], children, n)
            \cup Descendants(children[node - n + 1][2], children, n)

\* heapq._siftdown(heap, startpos, pos); positions count from 0
RECURSIVE SiftDownLoop(_, _, _, _)
SiftDownLoop(heap, startpos, pos, newitem) ==
    IF pos > startpos /\ newitem < heap[(pos - 1) \div 2 + 1]
    THEN SiftDownLoop([heap EXCEPT ![pos + 1] = heap[(pos - 1) \div 2 + 1]],
                      startpos, (pos - 1) \div 2, newitem)
    ELSE [heap EXCEPT ![pos + 1] = newitem]

SiftDown(heap, startpos, pos) == SiftDownLoop(heap, startpos, pos, heap[pos + 1])

\* heapq._siftup(heap, pos)
RECURSIVE SiftUpLoop(_, _, _, _)
SiftUpLoop(heap, startpos, pos, newitem) ==
    LET left     == 2 * pos + 1
        right    == left + 1
        childpos == IF right < Len(heap) /\ ~(heap[left + 1] < heap[right + 1])
                    THEN right ELSE left
    IN  IF left < Len(heap)
        THEN SiftUpLoop([heap EXCEPT ![pos + 1] = heap[childpos + 1]],
                        startpos, childpos, newitem)
        ELSE SiftDown([heap EXCEPT ![pos + 1] = newitem], startpos, pos)

SiftUp(heap, pos) == SiftUpLoop(heap, pos, pos, heap[pos + 1])

\* heapq.heappush(heap, item)
HeapPush(heap, item) == SiftDown(Append(heap, item), 0, Len(heap))

\* heapq.heappushpop(heap, item): the heap afterwards
HeapPushPop(heap, item) ==
    IF heap /= <<>> /\ heap[1] < item
    THEN SiftUp([heap EXCEPT ![1] = item], 0)
    ELSE heap

\* _hc_cut: the heap of negated nodes after splitting the largest node k times
RECURSIVE CutNodes(_, _, _, _)
CutNodes(nodes, children, n, k) ==
    IF k = 0 THEN nodes
    ELSE LET these_children == children[(0 - nodes[1]) - n + 1]
         IN  CutNodes(HeapPushPop(HeapPush(nodes, 0 - these_children[1]),
                                  0 - these_children[2]),
                      children, n, k - 1)

\* _hc_cut: label[descendants of nodes[i]] = i
LabelsOfNodes(nodes, children, n) ==
    [p \in 0..(n - 1) |->
        CHOOSE i \in 0..(Len(nodes) - 1) :
            p \in Descendants(0 - nodes[i + 1], children, n)]

\* _hc_cut(n_clusters, children, n_leaves): the label of every point
HcCut(n_clusters, children, n) ==
    LabelsOfNodes(
        CutNodes(<<0 - (Max(children[Len(children)][1], children[Len(children)][2]) + 1)>>,
                 children, n, n_clusters - 1),
        children, n)

\* n_clusters_ = count(distances_ >= distance_threshold) + 1, and the cut
CutTree(rows, n) ==
    HcCut(Cardinality({k \in 1..Len(rows) :
                          ~RatLess(rows[k].dist, <<100 - SIMILARITY_THRESHOLD, 1>>)}) + 1,
          LabelRows(rows, n, [p \in 0..(n - 1) |-> p], <<>>),
          n)

\* Lines 101-107: the labels fit_predict gives the n >= 2 profiles
FitPredict(profiles) == CutTree(SortByDist(NNChain(profiles)), Len(profiles))

\* chr(65), chr(66), ...
Chr65 ==
    <<"A", "B", "C", "D", "E", "F", "G", "H", "I", "J", "K", "L", "M", "N",
      "O", "P", "Q", "R", "S", "T", "U", "V", "W", "X", "Y", "Z", "[",
      "\\", "]", "^", "_">>

\* Line 112: f"SPEAKER_{chr(65 + i)}"
SpeakerLabel(i) == "SPEAKER_" \o Chr65[i + 1]

\* The i-th smallest element of a set of integers, i from 0
RECURSIVE NthSmallest(_, _)
NthSmallest(S, i) ==
    LET m == CHOOSE x \in S : \A y \in S : x <= y
    IN  IF i = 0 THEN m ELSE NthSmallest(S \ {m}, i - 1)

\* Lines 110-114: label_to_speaker over unique_labels = sorted(set(labels))
LabelToSpeaker(labels, label) ==
    LET unique == {labels[p] : p \in DOMAIN labels}
    IN  SpeakerLabel(CHOOSE i \in 0..(Cardinality(unique) - 1) :
                        NthSmallest(unique, i) = label)

\* Lines 117-120: speaker_mapping, a function from the ids
\* <<chunk_index, local_speaker>>; a later profile of an id replaces an earlier
SpeakerMapping(profiles, labels) ==
    [id \in {profiles[k].id : k \in 1..Len(profiles)} |->
        LabelToSpeaker(labels,
                       labels[(CHOOSE j \in 1..Len(profiles) :
                                  /\ profiles[j].id = id
                                  /\ \A m \in (j + 1)..Len(profiles) : profiles[m].id /= id) - 1])]

\* Mutant of LabelledProfiles: the count is the number of profiles
LabelledProfilesCountingProfiles(profiles, labels) ==
    [mapping |-> SpeakerMapping(profiles, labels), count |-> Len(profiles)]

\* Lines 117-126: the return value for the labels of fit_predict
LabelledProfiles(profiles, labels) ==
    [mapping |-> SpeakerMapping(profiles, labels),
     count   |-> Cardinality({labels[p] : p \in DOMAIN labels})]

\* Lines 83-126: the return value for the stacked profiles
ClusterProfiles(profiles) ==
    IF Len(profiles) = 0 THEN [mapping |-> Empty, count |-> 0]
    ELSE IF Len(profiles) = 1
    THEN [mapping |-> [id \in {profiles[1].id} |-> "SPEAKER_A"], count |-> 1]
    ELSE LabelledProfiles(profiles, FitPredict(profiles))

\* Lines 57-126: [mapping |-> speaker_mapping, count |-> global_speaker_count]
cluster_speakers(results) == ClusterProfiles(CollectProfiles(results))

\* The speakers of one chunk result: the first k local speakers, each with
\* one of the embeddings
SpeakerProfiles ==
    UNION {[1..k -> Voices] : k \in 0..Len(LocalSpeakers)}

ChunkSpeakers(voices) ==
    [k \in 1..Len(voices) |->
        [local_speaker |-> LocalSpeakers[k], embedding |-> voices[k]]]

\* The arrangements of the chunk indexes 0..n-1
Orders(n) == {o \in [1..n -> 0..(n - 1)] : \A i, j \in 1..n : o[i] = o[j] => i = j}

\* The chunk results with the speakers v[k] in the arrival order o
ChunkResultList(o, v) ==
    [k \in 1..Len(o) |-> [chunk_index |-> o[k], speakers |-> ChunkSpeakers(v[k])]]

\* The argument is any list of up to MaxChunks chunk results, in any arrival
\* order, with any speakers
InitCluster ==
    /\ cs_pc = "ready"
    /\ \E n \in 0..MaxChunks :
          \E o \in Orders(n), v \in [1..n -> SpeakerProfiles] :
              chunk_results = ChunkResultList(o, v)
    /\ speaker_mapping = Empty
    /\ global_speaker_count = 0
    /\ OthersIdleForCluster

\* One call of cluster_speakers
ClusterSpeakers ==
    /\ cs_pc = "ready"
    /\ LET r == cluster_speakers(chunk_results)
       IN  /\ speaker_mapping' = r.mapping
           /\ global_speaker_count' = r.count
    /\ cs_pc' = "done"
    /\ UNCHANGED <<chunk_results, ckVars, roVars, ioVars, agVars, mgVars, trVars, pgVars, drVars, lbVars, wkVars, whVars, dlVars>>

NextCluster == ClusterSpeakers

SpecCluster == InitCluster /\ [][NextCluster]_vars

\* The same chunk results in another arrival order
Permuted(input, o) == [k \in 1..Len(input) |-> input[o[k] + 1]]

\* C7: the global label given to a (chunk_index, local speaker) does not
\* depend on the order in which the chunk results arrive: every permutation
\* of chunk_results yields the same speaker_mapping.
C7_OrderIndependent ==
    cs_pc = "done" =>
        \A o \in Orders(Len(chunk_results)) :
            cluster_speakers(Permuted(chunk_results, o)).mapping = speaker_mapping

\* Chunk 0 hears vA as SPEAKER_00 and vB as SPEAKER_01, chunk 1 the reverse
SwappedIdentities ==
    <<[chunk_index |-> 0, speakers |-> ChunkSpeakers(<<(<<1, 0>>), (<<0, 1>>)>>)],
      [chunk_index |-> 1, speakers |-> ChunkSpeakers(<<(<<0, 1>>), (<<1, 0>>)>>)]>>

\* C8: profiles with identical embeddings receive the same global label
\* whatever their local labels are, and the swapped-identity scenario yields
\* two global speakers with chunk 0's SPEAKER_00 and chunk 1's SPEAKER_01
\* sharing a label.
C8_IdenticalEmbeddingsShareLabel ==
    cs_pc = "done" =>
        /\ \A p, q \in Range(CollectProfiles(chunk_results)) :
              p.embedding = q.embedding =>
                  speaker_mapping[p.id] = speaker_mapping[q.id]
        /\ chunk_results = SwappedIdentities =>
              /\ global_speaker_count = 2
              /\ speaker_mapping[<<0, "SPEAKER_00">>] = speaker_mapping[<<1, "SPEAKER_01">>]
              /\ speaker_mapping[<<0, "SPEAKER_01">>] = speaker_mapping[<<1, "SPEAKER_00">>]
              /\ speaker_mapping[<<0, "SPEAKER_00">>] /= speaker_mapping[<<0, "SPEAKER_01">>]

C8_Witness ==
    /\ cs_pc = "done"
    /\ chunk_results = SwappedIdentities
    /\ global_speaker_count = 2

\* The global labels in the speaker mapping
GlobalLabels == {speaker_mapping[id] : id \in DOMAIN speaker_mapping}

\* C17: global_speaker_count is the number of distinct global labels in the
\* mapping; with no profile the mapping is empty and the count 0; with one
\* profile the mapping sends it to SPEAKER_A and the count is 1.
C17_CountIsDistinctLabels ==
    cs_pc = "done" =>
        /\ global_speaker_count = Cardinality(GlobalLabels)
        /\ DOMAIN speaker_mapping = {p.id : p \in Range(CollectProfiles(chunk_results))}
        /\ Len(CollectProfiles(chunk_results)) = 0 =>
              speaker_mapping = Empty /\ global_speaker_count = 0
        /\ Len(CollectProfiles(chunk_results)) = 1 =>
              /\ GlobalLabels = {"SPEAKER_A"}
              /\ global_speaker_count = 1

\* C17 witness: four profiles clustered into two global speakers
C17_Witness ==
    /\ cs_pc = "done"
    /\ Len(CollectProfiles(chunk_results)) = 4
    /\ global_speaker_count = 2
    /\ GlobalLabels = {"SPEAKER_A", "SPEAKER_B"}

\* The global labels of the first k speaker profiles, in input order
LabelsOfFirst(k) ==
    {speaker_mapping[CollectProfiles(chunk_results)[j].id] : j \in 1..k}

\* C23: cluster labels are assigned by first appearance in input order: the
\* first profile is labelled SPEAKER_A and each cluster met for the first
\* time receives the next unused letter.
C23_LabelsByFirstAppearance ==
    cs_pc = "done" =>
        \A k \in 1..Len(CollectProfiles(chunk_results)) :
            LabelsOfFirst(k) =
                {SpeakerLabel(i) : i \in 0..(Cardinality(LabelsOfFirst(k)) - 1)}

(***************************************************************************)
(* The dict comprehension label_to_speaker of cluster_speakers             *)
(* (lines 110-114), one iteration at a time.  fit_predict numbers the      *)
(* clusters 0 .. n-1, so unique_labels = sorted(set(labels)) is 0 .. n-1.  *)
(***************************************************************************)

\* Largest number of clusters explored
MaxClusters == 28

InitLabel ==
    /\ lb_pc = "ready"
    /\ lb_unique \in 1..MaxClusters
    /\ lb_i = 0
    /\ label_to_speaker = <<>>
    /\ ChunkerIdle /\ ResolveIdle /\ ClusterIdle /\ IoIdle
    /\ AggregatorIdle /\ MergerIdle /\ TranscriberIdle /\ ProgressIdle /\ DriverIdle
    /\ WorkersIdle /\ WebhookIdle /\ DownloadIdle

\* Lines 111-114: one iteration, label lb_i receives f"SPEAKER_{chr(65 + i)}"
LabelNext ==
    /\ lb_pc = "ready"
    /\ lb_i < lb_unique
    /\ label_to_speaker' = Append(label_to_speaker, SpeakerLabel(lb_i))
    /\ lb_i' = lb_i + 1
    /\ UNCHANGED <<lb_pc, lb_unique, ckVars, roVars, ioVars, csVars, agVars, mgVars,
                   trVars, pgVars, drVars, wkVars, whVars, dlVars>>

\* Line 114: the comprehension is exhausted
LabelDone ==
    /\ lb_pc = "ready"
    /\ lb_i = lb_unique
    /\ lb_pc' = "done"
    /\ UNCHANGED <<lb_unique, lb_i, label_to_speaker, ckVars, roVars, ioVars, csVars,
                   agVars, mgVars, trVars, pgVars, drVars, wkVars, whVars, dlVars>>

NextLabel == LabelNext \/ LabelDone

SpecLabel == InitLabel /\ [][NextLabel]_vars

Letters ==
    <<"A", "B", "C", "D", "E", "F", "G", "H", "I", "J", "K", "L", "M", "N",
      "O", "P", "Q", "R", "S", "T", "U", "V", "W", "X", "Y", "Z">>

\* The label of the cluster of rank i, from 0: one letter up to the 26th
\* cluster, then two letters AA, AB, ...
WrappedLabel(i) ==
    IF i < 26 THEN "SPEAKER_" \o Letters[i + 1]
    ELSE "SPEAKER_" \o Letters[i \div 26] \o Letters[(i % 26) + 1]

\* C24: past 26 global speakers the labels wrap to two letters: the 27th
\* cluster is SPEAKER_AA, the 28th SPEAKER_AB, and every label is SPEAKER_
\* followed by letters A-Z only.
C24_LabelsWrap ==
    \A k \in 1..Len(label_to_speaker) : label_to_speaker[k] = WrappedLabel(k - 1)

(***************************************************************************)
(* Blob keys, progress reporting                                           *)
(* A key is the sequence of its parts: names, "/" and ".".                 *)
(***************************************************************************)

\* Position of the last sep in key t, 0 when there is none
LastIndexOf(t, sep) ==
    LET hits == {i \in 1..Len(t) : t[i] = sep}
    IN  IF hits = {} THEN 0 ELSE CHOOSE i \in hits : \A j \in hits : j <= i

\* t.rsplit(sep, 1)[-1]
AfterLast(t, sep) == SubSeq(t, LastIndexOf(t, sep) + 1, Len(t))

\* t.rsplit(sep, 1)[0]
BeforeLast(t, sep) ==
    IF LastIndexOf(t, sep) = 0 THEN t ELSE SubSeq(t, 1, LastIndexOf(t, sep) - 1)

\* No interview_id in the event
NoId == ""

\* progress.py:18-29
STEP_PROGRESS ==
    [queued |-> 0, extracting_audio |-> 10, chunking_audio |-> 15,
     diarizing |-> 30, merging_speakers |-> 45, splitting_by_speaker |-> 50,
     transcribing |-> 70, aggregating_results |-> 85, analyzing |-> 95,
     completed |-> 100]

\* Mutant of update_progress: a failed table update is reported as success
update_progress_always_true(table, interview_id, step, write_ok) ==
    [ret |-> TRUE, table |-> table]

\* progress.py:43-101 with progress=None, table_name=None: the returned flag
\* and the table afterwards; write_ok says whether update_item succeeds
update_progress(table, interview_id, step, write_ok) ==
    IF interview_id = NoId THEN [ret |-> FALSE, table |-> table]
    ELSE IF env.TABLE_NAME = "" THEN [ret |-> FALSE, table |-> table]
    ELSE IF ~write_ok THEN [ret |-> FALSE, table |-> table]
    ELSE [ret   |-> TRUE,
          table |-> [id \in DOMAIN table \cup {interview_id} |->
                        IF id = interview_id
                        THEN [progress     |-> IF step \in DOMAIN STEP_PROGRESS
                                               THEN STEP_PROGRESS[step] ELSE 0,
                              current_step |-> step]
                        ELSE table[id]]]

\* Mutant of PutObject: the call returns and the blob is not in the store
PutObjectLost(st, bucket, key, body) == st

\* s3.put_object(Bucket=bucket, Key=key, Body=body) that succeeds
PutObject(st, bucket, key, body) ==
    [bk \in DOMAIN st \cup {<<bucket, key>>} |->
        IF bk = <<bucket, key>> THEN body ELSE st[bk]]

\* OUTPUT_BUCKET if OUTPUT_BUCKET else bucket
OutputBucket(bucket) ==
    IF env.OUTPUT_BUCKET /= "" THEN env.OUTPUT_BUCKET ELSE bucket

Envs == [OUTPUT_BUCKET : {"", "out-bucket"}, TABLE_NAME : {"", "interviews"}]

InterviewIds == {NoId, "iv-1"}

\* "if interview_id: result["interview_id"] = interview_id"
WithInterviewId(result, interview_id) ==
    IF interview_id = NoId THEN result
    ELSE [f \in DOMAIN result \cup {"interview_id"} |->
             IF f = "interview_id" THEN interview_id ELSE result[f]]

\* The audio key of the run, processed/rec.wav
AudioKey == <<"processed", "/", "rec", ".", "wav">>

(***************************************************************************)
(* Transcriber: src/lambdas/transcribe/lambda_function.py                  *)
(* Aggregator:  src/lambdas/aggregate_results/lambda_function.py           *)
(***************************************************************************)

\* Largest number of SegmentFiles in one run
MaxFiles == 2

\* Name of the speaker of the i-th segment file, alternating as the
\* Splitter's clips of a two-speaker recording do
FileSpeaker(i) == IF i % 2 = 1 THEN "SPEAKER_A" ELSE "SPEAKER_B"

\* segments/rec_<i>_<speaker>.wav
SegmentKey(i) ==
    <<"segments", "/", "rec", "_", ToString(i), "_", FileSpeaker(i), ".", "wav">>

\* Mutant of TranscriberResultKey: the extension of the clip is kept
TranscriberResultKeyWithExtension(segment_key) ==
    <<"transcribe_results", "/">> \o AfterLast(segment_key, "/") \o <<".", "json">>

\* transcribe/lambda_function.py:106-107
TranscriberResultKey(segment_key) ==
    <<"transcribe_results", "/">>
        \o BeforeLast(AfterLast(segment_key, "/"), ".") \o <<".", "json">>

\* aggregate_results/lambda_function.py:72-74
AggregatorResultKey(segment_key) ==
    <<"transcribe_results", "/">>
        \o BeforeLast(AfterLast(segment_key, "/"), ".") \o <<".", "json">>

\* transcribe/lambda_function.py:109-114
TranscribeResult(segment_file, text) ==
    [speaker |-> segment_file.speaker,
     start   |-> segment_file.start,
     end     |-> segment_file.end,
     text    |-> text]

\* Mutant of ReadErrorEntry: the defaults of the .get calls instead of the
\* fields of the segment file
ReadErrorEntryDefaults(segment_file) ==
    [speaker |-> "UNKNOWN", start |-> 0, end |-> 0, text |-> "[yomikomi era-]"]

\* aggregate_results/lambda_function.py:87-92; the text is the Japanese for
\* "[read error]", written here in Latin letters
ReadErrorEntry(segment_file) ==
    [speaker |-> segment_file.speaker,
     start   |-> segment_file.start,
     end     |-> segment_file.end,
     text    |-> "[yomikomi era-]"]

\* aggregate_results/lambda_function.py:76-92: the entry of one segment file
LoadResult(st, bucket, segment_file) ==
    LET result_key == AggregatorResultKey(segment_file.key)
    IN  IF <<bucket, result_key>> \in DOMAIN st
        THEN st[<<bucket, result_key>>]
        ELSE ReadErrorEntry(segment_file)

\* Mutant of LoadResults: a segment file whose result cannot be read is
\* skipped
LoadResultsSkipping(st, bucket, segment_files) ==
    SelectSeq([i \in 1..Len(segment_files) |-> LoadResult(st, bucket, segment_files[i])],
              LAMBDA entry : entry.text /= "[yomikomi era-]")

\* aggregate_results/lambda_function.py:68-92
LoadResults(st, bucket, segment_files) ==
    [i \in 1..Len(segment_files) |-> LoadResult(st, bucket, segment_files[i])]

\* Mutant of AggregateSort: the sort is left out
AggregateSortMissing(full_results) == full_results

\* aggregate_results/lambda_function.py:97
AggregateSort(full_results) == SortByStart(full_results)

\* aggregate_results/lambda_function.py:102-103
TranscriptKey(audio_key) ==
    <<"transcripts", "/">>
        \o BeforeLast(AfterLast(audio_key, "/"), ".") \o <<"_transcript", ".", "json">>

\* The key of the segment_files blob, metadata/rec_segment_files.json
SegmentFilesKey == <<"metadata", "/", "rec", "_segment_files", ".", "json">>

\* The SegmentFile lists explored: the i-th file has key SegmentKey(i), starts
\* anywhere in 0..MaxTime-1 and lasts one or two ticks
SegmentFileLists ==
    UNION {
        {[i \in 1..n |-> [key     |-> SegmentKey(i),
                          speaker |-> FileSpeaker(i),
                          start   |-> iv[i][1],
                          end     |-> iv[i][2]]] :
            iv \in [1..n -> {<<a, b>> \in (0..MaxTime) \X (0..MaxTime) :
                                a < b /\ b <= a + 2}]} :
        n \in 0..MaxFiles}

\* The text the speech-to-text model gives for a clip
Texts == {"", "konnichiwa"}

\* The store before the Aggregator runs: the segment_files blob if it was
\* written, and the TranscribeResult of every file in readable
StoreBeforeAggregator(bucket, segment_files, has_list, readable) ==
    [bk \in (IF has_list THEN {<<bucket, SegmentFilesKey>>} ELSE {})
            \cup {<<bucket, TranscriberResultKey(segment_files[i].key)>> : i \in readable} |->
        IF bk = <<bucket, SegmentFilesKey>> THEN segment_files
        ELSE LET i == CHOOSE j \in readable :
                        bk = <<bucket, TranscriberResultKey(segment_files[j].key)>>
             IN  TranscribeResult(segment_files[i], "konnichiwa")]

InitAggregator ==
    /\ env \in Envs
    /\ store = Empty
    /\ progress_table = Empty
    /\ ag_pc = "ready"
    /\ ag_event = None
    /\ ag_segment_files = <<>>
    /\ ag_local = None
    /\ ag_result = None
    /\ ag_failure = "none"
    /\ OthersIdleForAggregator

\* aggregate_results/lambda_function.py:49-124: the handler up to the point
\* where it returns.  The event names a segment_files blob; some of the
\* TranscribeResult blobs are missing; put_object may raise.
AggregatorRun ==
    /\ ag_pc = "ready"
    /\ \E id \in InterviewIds, segment_files \in SegmentFileLists,
          has_list \in BOOLEAN, write_ok \in BOOLEAN, put_ok \in BOOLEAN :
       \E readable \in SUBSET (1..Len(segment_files)) :
          LET bucket == "in-bucket"
              before == StoreBeforeAggregator(bucket, segment_files, has_list, readable)
              sorted_results == AggregateSort(LoadResults(before, bucket, segment_files))
              transcript_key == TranscriptKey(AudioKey)
              output_bucket == OutputBucket(bucket)
          IN  /\ ag_event' = [bucket            |-> bucket,
                              segment_files_key |-> SegmentFilesKey,
                              audio_key         |-> AudioKey,
                              interview_id      |-> id]
              /\ ag_segment_files' = segment_files
              /\ progress_table' =
                    update_progress(progress_table, id, "aggregating_results", write_ok).table
              /\ IF ~has_list
                 THEN /\ ag_pc' = "failed"
                      /\ ag_failure' = "get segment_files"
                      /\ store' = before
                      /\ ag_local' = None
                 ELSE IF ~put_ok
                 THEN /\ ag_pc' = "failed"
                      /\ ag_failure' = "put transcript"
                      /\ store' = before
                      /\ ag_local' = None
                 ELSE /\ ag_pc' = "stored"
                      /\ ag_failure' = "none"
                      /\ store' = PutObject(before, output_bucket, transcript_key,
                                            sorted_results)
                      /\ ag_local' = WithInterviewId(
                                        [bucket         |-> output_bucket,
                                         transcript_key |-> transcript_key,
                                         segment_count  |-> Len(sorted_results)], id)
    /\ UNCHANGED <<env, ag_result, ckVars, roVars, csVars, mgVars, trVars, pgVars, drVars, lbVars, wkVars, whVars, dlVars>>

\* aggregate_results/lambda_function.py:125
AggregatorReturn ==
    /\ ag_pc = "stored"
    /\ ag_result' = ag_local
    /\ ag_pc' = "returned"
    /\ UNCHANGED <<ioVars, ag_event, ag_segment_files, ag_local, ag_failure,
                   ckVars, roVars, csVars, mgVars, trVars, pgVars, drVars, lbVars, wkVars, whVars, dlVars>>

NextAggregator == AggregatorRun \/ AggregatorReturn

SpecAggregator == InitAggregator /\ [][NextAggregator]_vars

\* The final transcript blob the Aggregator wrote
FinalTranscript == store[<<ag_local.bucket, ag_local.transcript_key>>]

\* The indices of the segment files whose TranscribeResult blob is missing
Unreadable ==
    {i \in 1..Len(ag_segment_files) :
        <<ag_event.bucket, TranscriberResultKey(ag_segment_files[i].key)>>
            \notin DOMAIN store}

\* C4: the final transcript blob is non-decreasing by start.
C4_TranscriptSorted ==
    ag_pc \in {"stored", "returned"} =>
        \A i \in 1..(Len(FinalTranscript) - 1) :
            FinalTranscript[i].start <= FinalTranscript[i + 1].start

\* C4 witness: the files were listed in descending start order, one result
\* blob was missing, and the transcript was written
C4_Witness ==
    /\ ag_pc = "returned"
    /\ Len(ag_segment_files) = 2
    /\ ag_segment_files[1].start > ag_segment_files[2].start
    /\ Unreadable /= {}

\* s holds the same entries as t, each as often (a permutation of t)
SameEntries(s, t) ==
    /\ Len(s) = Len(t)
    /\ \A x \in Range(s) \cup Range(t) :
          Cardinality({i \in 1..Len(s) : s[i] = x})
              = Cardinality({i \in 1..Len(t) : t[i] = x})

\* C5: whatever TranscribeResult blobs are missing, the Aggregator does not
\* fail because of them, the final transcript holds exactly one entry per
\* SegmentFile (the loaded result, or the placeholder of that file), and
\* segment_count is the number of SegmentFiles.
C5_ToleratesReadFailures ==
    /\ ag_pc = "failed" => ag_failure \in {"get segment_files", "put transcript"}
    /\ ag_pc \in {"stored", "returned"} =>
          /\ Len(FinalTranscript) = Len(ag_segment_files)
          /\ ag_local.segment_count = Len(ag_segment_files)
          /\ SameEntries(FinalTranscript,
                         [i \in 1..Len(ag_segment_files) |->
                             IF i \in Unreadable
                             THEN ReadErrorEntry(ag_segment_files[i])
                             ELSE TranscribeResult(ag_segment_files[i], "konnichiwa")])

\* C5 witness: two files, the result of one of them missing, manifest returned
C5_Witness ==
    /\ ag_pc = "returned"
    /\ Len(ag_segment_files) = 2
    /\ Cardinality(Unreadable) = 1
    /\ ag_result.segment_count = 2

\* The entries of the final transcript equal to e
EntriesEqual(e) == {j \in 1..Len(FinalTranscript) : FinalTranscript[j] = e}

\* The entries of the final transcript with the text t
EntriesWithText(t) == {j \in 1..Len(FinalTranscript) : FinalTranscript[j].text = t}

C22_TranscriptOrderIndependent ==
    ag_pc \in {"stored", "returned"} =>
        \A o \in ListOrders(Len(ag_segment_files)) :
            AggregateSort(LoadResults(store, ag_event.bucket,
                                      Reordered(ag_segment_files, o)))
                = FinalTranscript

(***************************************************************************)
(* Transcriber handler: src/lambdas/transcribe/lambda_function.py:51-136   *)
(***************************************************************************)

\* Mutant of TranscriberManifest: the text is returned inline
TranscriberManifestWithText(bucket, result_key, result_data) ==
    [bucket     |-> bucket,
     result_key |-> result_key,
     speaker    |-> result_data.speaker,
     start      |-> result_data.start,
     end        |-> result_data.end,
     text       |-> result_data.text]

\* Lines 125-131: the value returned
TranscriberManifest(bucket, result_key, result_data) ==
    [bucket     |-> bucket,
     result_key |-> result_key,
     speaker    |-> result_data.speaker,
     start      |-> result_data.start,
     end        |-> result_data.end]

\* Shapes of segment keys: directory, name and extension.  The key of
\* SegmentKey, a name with a dot in a nested directory, a key without
\* directory, and a key without extension
KeyShapes ==
    {[dir |-> <<"segments", "/">>, name |-> <<"rec", "_", ToString(i), "_", FileSpeaker(i)>>,
      ext |-> <<".", "wav">>] : i \in 1..MaxFiles}
    \cup {[dir |-> <<"segments", "/", "run", "/">>, name |-> <<"rec", ".", "v2">>,
           ext |-> <<".", "wav">>],
          [dir |-> <<>>, name |-> <<"clip">>, ext |-> <<".", "wav">>],
          [dir |-> <<"segments", "/">>, name |-> <<"clip">>, ext |-> <<>>]}

KeyOf(shape) == shape.dir \o shape.name \o shape.ext

\* The SegmentFiles a Transcriber invocation may be given: the files of the
\* lists of the Aggregator, and the first of them under every key shape
SegmentFiles ==
    UNION {Range(fs) : fs \in SegmentFileLists}
    \cup {[f EXCEPT !.key = KeyOf(sh)] :
              f \in UNION {Range(fs) : fs \in SegmentFileLists}, sh \in KeyShapes}

InitTranscriber ==
    /\ env \in Envs
    /\ store = Empty
    /\ progress_table = Empty
    /\ tr_pc = "ready"
    /\ tr_event = None
    /\ tr_local = None
    /\ tr_result = None
    /\ tr_failure = "none"
    /\ OthersIdleForTranscriber

\* Lines 75-131: the handler up to the point where it returns.  The clip may
\* be missing, the speech-to-text model may raise, put_object may raise.
TranscriberRun ==
    /\ tr_pc = "ready"
    /\ \E segment_file \in SegmentFiles, text \in Texts,
          has_clip \in BOOLEAN, model_ok \in BOOLEAN, put_ok \in BOOLEAN :
          LET bucket      == "in-bucket"
              before      == IF has_clip
                             THEN PutObject(Empty, bucket, segment_file.key, "audio")
                             ELSE Empty
              result_key  == TranscriberResultKey(segment_file.key)
              result_data == TranscribeResult(segment_file, text)
          IN  /\ tr_event' = [bucket |-> bucket, segment_file |-> segment_file]
              /\ IF ~has_clip
                 THEN /\ tr_pc' = "failed"
                      /\ tr_failure' = "download clip"
                      /\ store' = before
                      /\ tr_local' = None
                 ELSE IF ~model_ok
                 THEN /\ tr_pc' = "failed"
                      /\ tr_failure' = "transcribe"
                      /\ store' = before
                      /\ tr_local' = None
                 ELSE IF ~put_ok
                 THEN /\ tr_pc' = "failed"
                      /\ tr_failure' = "put result"
                      /\ store' = before
                      /\ tr_local' = None
                 ELSE /\ tr_pc' = "stored"
                      /\ tr_failure' = "none"
                      /\ store' = PutObject(before, bucket, result_key, result_data)
                      /\ tr_local' = TranscriberManifest(bucket, result_key, result_data)
    /\ UNCHANGED <<env, progress_table, tr_result, ckVars, roVars, csVars, agVars, mgVars, pgVars, drVars, lbVars, wkVars, whVars, dlVars>>

\* Line 125: return
TranscriberReturn ==
    /\ tr_pc = "stored"
    /\ tr_result' = tr_local
    /\ tr_pc' = "returned"
    /\ UNCHANGED <<ioVars, tr_event, tr_local, tr_failure,
                   ckVars, roVars, csVars, agVars, mgVars, pgVars, drVars, lbVars, wkVars, whVars, dlVars>>

NextTranscriber == TranscriberRun \/ TranscriberReturn

SpecTranscriber == InitTranscriber /\ [][NextTranscriber]_vars

\* C26: result keys are derived, and both sides derive the same key: the
\* key under which the Transcriber persists the TranscribeResult of segment
\* key k is the key the Aggregator reads for k, namely
\* transcribe_results/<basename of k without extension>.json in the same
\* bucket, and the persisted blob carries speaker, start and end of the
\* SegmentFile.
C26_SameDerivedKey ==
    tr_pc \in {"stored", "returned"} =>
        /\ tr_local.result_key = AggregatorResultKey(tr_event.segment_file.key)
        /\ tr_local.bucket = tr_event.bucket
        /\ \E sh \in KeyShapes :
              /\ KeyOf(sh) = tr_event.segment_file.key
              /\ tr_local.result_key
                     = <<"transcribe_results", "/">> \o sh.name \o <<".", "json">>
        /\ <<tr_event.bucket, AggregatorResultKey(tr_event.segment_file.key)>>
               \in DOMAIN store
        /\ LET blob == store[<<tr_event.bucket,
                               AggregatorResultKey(tr_event.segment_file.key)>>]
           IN  /\ blob.speaker = tr_event.segment_file.speaker
               /\ blob.start = tr_event.segment_file.start
               /\ blob.end = tr_event.segment_file.end
               /\ LoadResult(store, tr_event.bucket, tr_event.segment_file) = blob

\* C26 witness: the result of a clip with a dot in its name, in a nested
\* directory, was persisted
C26_Witness ==
    /\ tr_pc = "stored"
    /\ tr_event.segment_file.key
           = <<"segments", "/", "run", "/", "rec", ".", "v2", ".", "wav">>
    /\ tr_local.result_key = <<"transcribe_results", "/", "rec", ".", "v2", ".", "json">>
    /\ <<tr_event.bucket, tr_local.result_key>> \in DOMAIN store

(***************************************************************************)
(* Merger handler: src/lambdas/merge_speakers/lambda_function.py:178-288   *)
(* In the handler's inputs chunk k starts at tick 2k and its effective     *)
(* window is [2k, 2k + 3) for k = 0 and [2k + 1, 2k + 3) after that.       *)
(***************************************************************************)

\* diarize_results/rec_chunk_<k>.json
ChunkResultKey(k) ==
    <<"diarize_results", "/", "rec", "_chunk_", ToString(k), ".", "json">>

LocalSegment(local_speaker, local_start, local_end) ==
    [local_speaker |-> local_speaker, local_start |-> local_start, local_end |-> local_end]

\* What a chunk may hold: nothing; one speaker; two speakers, either way
\* round; a speaker whose segments were too short for a profile; a speaker
\* heard only in the first second of the chunk
ChunkContents ==
    {[speakers |-> <<>>, segments |-> <<>>],
     [speakers |-> ChunkSpeakers(<<(<<1, 0>>)>>),
      segments |-> <<LocalSegment("SPEAKER_00", 0, 2)>>],
     [speakers |-> ChunkSpeakers(<<(<<0, 1>>)>>),
      segments |-> <<LocalSegment("SPEAKER_00", 0, 2)>>],
     [speakers |-> ChunkSpeakers(<<(<<1, 0>>), (<<0, 1>>)>>),
      segments |-> <<LocalSegment("SPEAKER_00", 0, 2), LocalSegment("SPEAKER_01", 1, 4)>>],
     [speakers |-> ChunkSpeakers(<<(<<0, 1>>), (<<1, 0>>)>>),
      segments |-> <<LocalSegment("SPEAKER_00", 0, 2), LocalSegment("SPEAKER_01", 1, 4)>>],
     [speakers |-> <<>>,
      segments |-> <<LocalSegment("SPEAKER_00", 1, 2)>>],
     [speakers |-> ChunkSpeakers(<<(<<1, 0>>)>>),
      segments |-> <<LocalSegment("SPEAKER_00", 0, 1)>>]}

\* The ChunkDiarization blob of chunk k
ChunkDiarization(k, contents) ==
    [chunk_index     |-> k,
     offset          |-> 2 * k,
     effective_start |-> IF k = 0 THEN 0 ELSE 2 * k + 1,
     effective_end   |-> 2 * k + 3,
     speakers        |-> contents.speakers,
     segments        |-> contents.segments]

\* The lists of ChunkDiarization blobs explored, chunk k at position k + 1
ChunkDiarizationLists ==
    UNION {{[k \in 1..n |-> ChunkDiarization(k - 1, c[k])] : c \in [1..n -> ChunkContents]} :
           n \in 0..MaxChunks}

\* The store before the Merger runs: the blobs of the chunks in readable
StoreBeforeMerger(bucket, blobs, readable) ==
    [bk \in {<<bucket, ChunkResultKey(k - 1)>> : k \in readable} |->
        blobs[CHOOSE k \in readable : bk = <<bucket, ChunkResultKey(k - 1)>>]]

\* Mutant of load_chunk_results: a blob that cannot be read is skipped
load_chunk_results_skipping(st, bucket, result_keys) ==
    [ok      |-> TRUE,
     results |-> [j \in 1..Cardinality({k \in 1..Len(result_keys) :
                                           <<bucket, result_keys[k]>> \in DOMAIN st}) |->
                     st[<<bucket,
                          result_keys[CHOOSE k \in 1..Len(result_keys) :
                              /\ <<bucket, result_keys[k]>> \in DOMAIN st
                              /\ Cardinality({m \in 1..k :
                                     <<bucket, result_keys[m]>> \in DOMAIN st}) = j]>>]]]

\* Lines 38-54: the blobs of all keys in order; get_object raises at the
\* first key that has no blob, and then there is no result (ok is FALSE)
load_chunk_results(st, bucket, result_keys) ==
    IF \A k \in 1..Len(result_keys) : <<bucket, result_keys[k]>> \in DOMAIN st
    THEN [ok      |-> TRUE,
          results |-> [k \in 1..Len(result_keys) |-> st[<<bucket, result_keys[k]>>]]]
    ELSE [ok |-> FALSE, results |-> <<>>]

\* Line 218: [r for r in chunk_results if r.get("segments")]
NonEmptyChunks(results) == SelectSeq(results, LAMBDA r : r.segments /= <<>>)

\* Mutant of GlobalCandidate: a local speaker without a mapping entry keeps
\* its local name
GlobalCandidateLocalName(result, seg, mapping) ==
    [global_start    |-> seg.local_start + result.offset,
     global_end      |-> seg.local_end + result.offset,
     speaker         |-> IF <<result.chunk_index, seg.local_speaker>> \in DOMAIN mapping
                         THEN mapping[<<result.chunk_index, seg.local_speaker>>]
                         ELSE seg.local_speaker,
     effective_start |-> result.effective_start,
     effective_end   |-> result.effective_end]

\* Lines 245-255: the candidate of one local segment
GlobalCandidate(result, seg, mapping) ==
    [global_start    |-> seg.local_start + result.offset,
     global_end      |-> seg.local_end + result.offset,
     speaker         |-> IF <<result.chunk_index, seg.local_speaker>> \in DOMAIN mapping
                         THEN mapping[<<result.chunk_index, seg.local_speaker>>]
                         ELSE "UNKNOWN_" \o seg.local_speaker,
     effective_start |-> result.effective_start,
     effective_end   |-> result.effective_end]

\* Lines 236-255: the candidates of all chunk results, in input order
RECURSIVE BuildAllSegments(_, _)
BuildAllSegments(results, mapping) ==
    IF results = <<>> THEN <<>>
    ELSE [j \in 1..Len(Head(results).segments) |->
             GlobalCandidate(Head(results), Head(results).segments[j], mapping)]
         \o BuildAllSegments(Tail(results), mapping)

\* Lines 266-267: base_key + "_segments.json"
SegmentsKey(audio_key) == BeforeLast(audio_key, ".") \o <<"_segments", ".", "json">>

\* "segments_key": None
NoKey == <<>>

\* Lines 279-284 and 222-227: the value returned, before interview_id
MergerManifest(bucket, audio_key, segments_key, speaker_count) ==
    [bucket               |-> bucket,
     audio_key            |-> audio_key,
     segments_key         |-> segments_key,
     global_speaker_count |-> speaker_count]

InitMerger ==
    /\ env \in Envs
    /\ store = Empty
    /\ progress_table = Empty
    /\ mg_pc = "ready"
    /\ mg_event = None
    /\ mg_local = None
    /\ mg_result = None
    /\ mg_failure = "none"
    /\ OthersIdleForMerger

\* Lines 200-287: the handler up to the point where it returns.  Some chunk
\* blobs may be missing; put_object may raise.
MergerRun ==
    /\ mg_pc = "ready"
    /\ \E id \in InterviewIds, blobs \in ChunkDiarizationLists,
          write_ok \in BOOLEAN, put_ok \in BOOLEAN :
       \E readable \in SUBSET (1..Len(blobs)) :
          LET bucket         == "in-bucket"
              before         == StoreBeforeMerger(bucket, blobs, readable)
              result_keys    == [k \in 1..Len(blobs) |-> ChunkResultKey(k - 1)]
              loaded         == load_chunk_results(before, bucket, result_keys)
              clustering     == cluster_speakers(NonEmptyChunks(loaded.results))
              final_segments == resolve_overlaps(
                                    BuildAllSegments(loaded.results, clustering.mapping))
              output_bucket  == OutputBucket(bucket)
              segments_key   == SegmentsKey(AudioKey)
          IN  /\ mg_event' = [bucket        |-> bucket,
                              audio_key     |-> AudioKey,
                              chunk_results |-> [k \in 1..Len(blobs) |->
                                                    [result_key |-> result_keys[k]]],
                              interview_id  |-> id]
              /\ progress_table' =
                    update_progress(progress_table, id, "merging_speakers", write_ok).table
              /\ IF ~loaded.ok
                 THEN /\ mg_pc' = "failed"
                      /\ mg_failure' = "load chunk_results"
                      /\ store' = before
                      /\ mg_local' = None
                 ELSE IF NonEmptyChunks(loaded.results) = <<>>
                 THEN /\ mg_pc' = "done"
                      /\ mg_failure' = "none"
                      /\ store' = before
                      /\ mg_local' = WithInterviewId(
                                        MergerManifest(bucket, AudioKey, NoKey, 0), id)
                 ELSE IF ~put_ok
                 THEN /\ mg_pc' = "failed"
                      /\ mg_failure' = "put segments"
                      /\ store' = before
                      /\ mg_local' = None
                 ELSE /\ mg_pc' = "done"
                      /\ mg_failure' = "none"
                      /\ store' = PutObject(before, output_bucket, segments_key,
                                            final_segments)
                      /\ mg_local' = WithInterviewId(
                                        MergerManifest(output_bucket, AudioKey, segments_key,
                                                       clustering.count), id)
    /\ UNCHANGED <<env, mg_result, ckVars, roVars, csVars, agVars, trVars, pgVars, drVars, lbVars, wkVars, whVars, dlVars>>

\* Lines 230 and 288: return result
MergerReturn ==
    /\ mg_pc = "done"
    /\ mg_result' = mg_local
    /\ mg_pc' = "returned"
    /\ UNCHANGED <<ioVars, mg_event, mg_local, mg_failure,
                   ckVars, roVars, csVars, agVars, trVars, pgVars, drVars, lbVars, wkVars, whVars, dlVars>>

NextMerger == MergerRun \/ MergerReturn

SpecMerger == InitMerger /\ [][NextMerger]_vars

\* The ChunkDiarization blobs the Merger loaded, in the order of the event
LoadedChunks ==
    [k \in 1..Len(mg_event.chunk_results) |->
        store[<<mg_event.bucket, mg_event.chunk_results[k].result_key>>]]

\* The Merger ran to its end on chunk blobs that all have segments = []
AllChunksEmpty ==
    /\ mg_pc \in {"done", "returned"}
    /\ \A k \in 1..Len(LoadedChunks) : LoadedChunks[k].segments = <<>>

\* C6: when every loaded ChunkDiarization has an empty segments list, the
\* Merger ends successfully, has written a segments blob whose content is the
\* empty list, and returns global_speaker_count = 0.
C6_EmptyChunksBlob ==
    AllChunksEmpty =>
        /\ mg_local.global_speaker_count = 0
        /\ mg_local.segments_key /= NoKey
        /\ <<mg_local.bucket, mg_local.segments_key>> \in DOMAIN store
        /\ store[<<mg_local.bucket, mg_local.segments_key>>] = <<>>

\* The chunk blobs named by the Merger's event that are not in the store
MissingChunks ==
    {k \in 1..Len(mg_event.chunk_results) :
        <<mg_event.bucket, mg_event.chunk_results[k].result_key>> \notin DOMAIN store}

\* C11: if the ChunkDiarization blob of any manifest cannot be loaded, the
\* Merger fails as a whole: it raises in the load, writes no segments blob
\* and returns no manifest, whatever the other chunks hold.
C11_AllOrNothing ==
    (mg_event /= None /\ MissingChunks /= {}) =>
        /\ mg_pc = "failed"
        /\ mg_failure = "load chunk_results"
        /\ mg_local = None
        /\ mg_result = None
        /\ \A bk \in DOMAIN store : bk[2] /= SegmentsKey(mg_event.audio_key)

\* C11 witness: of two chunks the first loaded and has segments, the second
\* is missing, and the Merger failed
C11_Witness ==
    /\ mg_pc = "failed"
    /\ Len(mg_event.chunk_results) = 2
    /\ MissingChunks = {2}
    /\ store[<<mg_event.bucket, mg_event.chunk_results[1].result_key>>].segments /= <<>>

\* The Merger ran to its end and wrote a segments blob
SegmentsWritten ==
    /\ mg_pc \in {"done", "returned"}
    /\ mg_local.segments_key /= NoKey

\* The segments blob the Merger wrote
WrittenSegments == store[<<mg_local.bucket, mg_local.segments_key>>]

\* The interval [max(local_start + offset, effective_start),
\* min(local_end + offset, effective_end)) of one local segment of a chunk
SurvivingInterval(result, seg) ==
    [start |-> Max(seg.local_start + result.offset, result.effective_start),
     end   |-> Min(seg.local_end + result.offset, result.effective_end)]

\* The local segments of a chunk whose surviving interval is empty
DroppedOf(result) ==
    {j \in 1..Len(result.segments) :
        SurvivingInterval(result, result.segments[j]).start
            >= SurvivingInterval(result, result.segments[j]).end}

\* The surviving intervals of the local segments segs of one chunk, each with
\* its global speaker, in input order
RECURSIVE SurvivorsOfChunk(_, _, _)
SurvivorsOfChunk(result, segs, mapping) ==
    IF segs = <<>> THEN <<>>
    ELSE (IF SurvivingInterval(result, Head(segs)).start
                 >= SurvivingInterval(result, Head(segs)).end
          THEN <<>>
          ELSE <<[start   |-> SurvivingInterval(result, Head(segs)).start,
                  end     |-> SurvivingInterval(result, Head(segs)).end,
                  speaker |-> IF <<result.chunk_index, Head(segs).local_speaker>>
                                     \in DOMAIN mapping
                              THEN mapping[<<result.chunk_index,
                                             Head(segs).local_speaker>>]
                              ELSE "UNKNOWN_" \o Head(segs).local_speaker]>>)
         \o SurvivorsOfChunk(result, Tail(segs), mapping)

\* The surviving intervals of all chunks, in input order
RECURSIVE Survivors(_, _)
Survivors(results, mapping) ==
    IF results = <<>> THEN <<>>
    ELSE SurvivorsOfChunk(Head(results), Head(results).segments, mapping)
         \o Survivors(Tail(results), mapping)

\* C18: every local segment is placed at local + offset and clipped to the
\* effective window of its chunk; it survives as [max(local_start + offset,
\* effective_start), min(local_end + offset, effective_end)) and is dropped
\* exactly when that interval is empty: the written segments are the sweep
\* over exactly these surviving intervals.
C18_PlacedAndClipped ==
    SegmentsWritten =>
        WrittenSegments =
            CoalesceFrom(<<>>, SortByStart(
                Survivors(LoadedChunks,
                          cluster_speakers(NonEmptyChunks(LoadedChunks)).mapping)))

\* C18 witness: of two chunks, the first holds a segment that was cut at the
\* end of its window and the second a segment that was dropped
C18_Witness ==
    /\ SegmentsWritten
    /\ Len(LoadedChunks) = 2
    /\ \E j \in 1..Len(LoadedChunks[1].segments) :
          /\ j \notin DroppedOf(LoadedChunks[1])
          /\ LoadedChunks[1].segments[j].local_end + LoadedChunks[1].offset
                 > LoadedChunks[1].effective_end
    /\ DroppedOf(LoadedChunks[2]) /= {}
    /\ WrittenSegments /= <<>>

\* The local segments <<k, j>> of the loaded chunks whose (chunk_index,
\* local_speaker) has no entry in mapping
Unmapped(mapping) ==
    {kj \in UNION {{<<k, j>> : j \in 1..Len(LoadedChunks[k].segments)} :
                   k \in 1..Len(LoadedChunks)} :
        <<LoadedChunks[kj[1]].chunk_index,
          LoadedChunks[kj[1]].segments[kj[2]].local_speaker>> \notin DOMAIN mapping}

\* Every unmapped local segment that survives clipping lies in a written
\* segment of the speaker UNKNOWN_<local_speaker>
UnknownEmitted(mapping) ==
    \A kj \in Unmapped(mapping) :
        kj[2] \notin DroppedOf(LoadedChunks[kj[1]]) =>
            \E w \in Range(WrittenSegments) :
                /\ w.speaker = "UNKNOWN_" \o LoadedChunks[kj[1]].segments[kj[2]].local_speaker
                /\ w.start <= SurvivingInterval(LoadedChunks[kj[1]],
                                                LoadedChunks[kj[1]].segments[kj[2]]).start
                /\ w.end >= SurvivingInterval(LoadedChunks[kj[1]],
                                              LoadedChunks[kj[1]].segments[kj[2]]).end

\* The Merger loaded every chunk blob, some chunk has segments, and the
\* write of the segments blob did not raise
MergerCouldFinish ==
    /\ mg_event /= None
    /\ MissingChunks = {}
    /\ NonEmptyChunks(LoadedChunks) /= <<>>
    /\ mg_failure /= "put segments"

\* C25: a segment whose (chunk_index, local_speaker) has no entry in the
\* global mapping never fails the Merger and is not dropped for that reason:
\* it is emitted with speaker UNKNOWN_<local_speaker> after clipping and
\* coalescing like any other segment.
C25_UnknownSpeakerEmitted ==
    MergerCouldFinish =>
        /\ SegmentsWritten
        /\ UnknownEmitted(cluster_speakers(NonEmptyChunks(LoadedChunks)).mapping)

\* C25 witness: the first chunk has two profiled speakers, the second a
\* speaker without a profile, and the written segments name all three
C25_Witness ==
    /\ SegmentsWritten
    /\ Len(LoadedChunks) = 2
    /\ Len(LoadedChunks[1].speakers) = 2
    /\ LoadedChunks[2].speakers = <<>>
    /\ LoadedChunks[2].segments /= <<>>
    /\ {w.speaker : w \in Range(WrittenSegments)}
           = {"SPEAKER_A", "SPEAKER_B", "UNKNOWN_SPEAKER_00"}

(***************************************************************************)
(* Transcriber invocations running as concurrent workers of one process.   *)
(* Every invocation uses the same scratch path local_path =                *)
(* "/tmp/segment.wav" (transcribe/lambda_function.py:84); the steps of the *)
(* workers interleave.  Clips are numbered; clip c holds the audio c.      *)
(***************************************************************************)

\* Number of concurrent workers
NumWorkers == 2

Workers == 1..NumWorkers

\* The segment clips in the store
Clips == 1..(NumWorkers + 1)

NoClip == 0

InitWorkers ==
    /\ wk_pc = [w \in Workers |-> "ready"]
    /\ wk_item \in {f \in [Workers -> Clips] : \A a, b \in Workers : f[a] = f[b] => a = b}
    /\ wk_heard = [w \in Workers |-> NoClip]
    /\ scratch = NoClip
    /\ ChunkerIdle /\ ResolveIdle /\ ClusterIdle /\ IoIdle
    /\ AggregatorIdle /\ MergerIdle /\ TranscriberIdle /\ ProgressIdle /\ DriverIdle
    /\ LabelIdle /\ WebhookIdle /\ DownloadIdle

\* Line 89: s3.download_file(bucket, segment_key, local_path)
WorkerDownload(w) ==
    /\ wk_pc[w] = "ready"
    /\ scratch' = wk_item[w]
    /\ wk_pc' = [wk_pc EXCEPT ![w] = "downloaded"]
    /\ UNCHANGED <<wk_item, wk_heard, ckVars, roVars, ioVars, csVars, agVars, mgVars,
                   trVars, pgVars, drVars, lbVars, whVars, dlVars>>

\* Lines 92-98: model.transcribe(local_path, ...) reads the file at
\* local_path; it raises if there is none
WorkerTranscribe(w) ==
    /\ wk_pc[w] = "downloaded"
    /\ wk_heard' = [wk_heard EXCEPT ![w] = scratch]
    /\ wk_pc' = [wk_pc EXCEPT ![w] = IF scratch = NoClip THEN "raised" ELSE "transcribed"]
    /\ UNCHANGED <<wk_item, scratch, ckVars, roVars, ioVars, csVars, agVars, mgVars,
                   trVars, pgVars, drVars, lbVars, whVars, dlVars>>

\* Lines 104-122: the result is persisted
WorkerPut(w) ==
    /\ wk_pc[w] = "transcribed"
    /\ wk_pc' = [wk_pc EXCEPT ![w] = "stored"]
    /\ UNCHANGED <<wk_item, wk_heard, scratch, ckVars, roVars, ioVars, csVars, agVars,
                   mgVars, trVars, pgVars, drVars, lbVars, whVars, dlVars>>

\* Lines 133-136: finally: if os.path.exists(local_path): os.remove(local_path)
WorkerCleanup(w) ==
    /\ wk_pc[w] \in {"stored", "raised"}
    /\ scratch' = NoClip
    /\ wk_pc' = [wk_pc EXCEPT ![w] = IF wk_pc[w] = "stored" THEN "returned" ELSE "failed"]
    /\ UNCHANGED <<wk_item, wk_heard, ckVars, roVars, ioVars, csVars, agVars, mgVars,
                   trVars, pgVars, drVars, lbVars, whVars, dlVars>>

NextWorkers ==
    \/ \E w \in Workers : WorkerDownload(w)
    \/ \E w \in Workers : WorkerTranscribe(w)
    \/ \E w \in Workers : WorkerPut(w)
    \/ \E w \in Workers : WorkerCleanup(w)

SpecWorkers == InitWorkers /\ [][NextWorkers]_vars

\* C27: concurrent workers on distinct items are independent: each one
\* transcribes the clip of its own item, and the scratch file of a worker
\* that has downloaded and not yet transcribed is neither overwritten nor
\* removed by another worker.
C27_WorkersIndependent ==
    \A w \in DOMAIN wk_pc :
        /\ wk_pc[w] = "downloaded" => scratch = wk_item[w]
        /\ wk_pc[w] \in {"transcribed", "stored", "returned"} => wk_heard[w] = wk_item[w]
        /\ wk_pc[w] \notin {"raised", "failed"}

(***************************************************************************)
(* The three handlers that publish blob keys.  An invocation of one of     *)
(* them runs in a process of its own, so SpecStages starts one invocation  *)
(* of the Merger, of the Transcriber or of the Aggregator.                 *)
(***************************************************************************)

InitStages == InitMerger \/ InitTranscriber \/ InitAggregator

NextStages == NextMerger \/ NextTranscriber \/ NextAggregator

SpecStages == InitStages /\ [][NextStages]_vars

C10_WriteBeforePublish ==
    /\ mg_result /= None /\ mg_result.segments_key /= NoKey =>
          <<mg_result.bucket, mg_result.segments_key>> \in DOMAIN store
    /\ tr_result /= None =>
          <<tr_result.bucket, tr_result.result_key>> \in DOMAIN store
    /\ ag_result /= None =>
          <<ag_result.bucket, ag_result.transcript_key>> \in DOMAIN store
    /\ mg_failure = "put segments" => mg_result = None /\ mg_pc = "failed"
    /\ tr_failure = "put result" => tr_result = None /\ tr_pc = "failed"
    /\ ag_failure = "put transcript" => ag_result = None /\ ag_pc = "failed"

\* C10 witness: the Merger returned the key of a segments blob written to
\* the output bucket
C10_Witness ==
    /\ mg_pc = "returned"
    /\ mg_result.segments_key /= NoKey
    /\ mg_result.bucket = "out-bucket"
    /\ Len(store[<<mg_result.bucket, mg_result.segments_key>>]) > 0

\* The steps some row of the progress table carries
RecordedSteps == {progress_table[id].current_step : id \in DOMAIN progress_table}

\* The final transcript blob of the run is in the store, in some bucket
TranscriptExists == \E bk \in DOMAIN store : bk[2] = TranscriptKey(AudioKey)

\* C15: when a stage handler has failed, the progress row of the run does
\* not carry the step that failed (it carries the last step that completed),
\* and there is no final transcript blob.
C15_FailureKeepsLastStep ==
    /\ mg_pc = "failed" => "merging_speakers" \notin RecordedSteps /\ ~TranscriptExists
    /\ ag_pc = "failed" => "aggregating_results" \notin RecordedSteps /\ ~TranscriptExists
    /\ tr_pc = "failed" => ~TranscriptExists

(***************************************************************************)
(* Progress Reporter: src/lambdas/aggregate_results/progress.py            *)
(* Calls of update_progress by the stage handlers of runs, in any order:   *)
(* a handler may be invoked again after a later stage has reported.        *)
(***************************************************************************)

\* The step names the stage handlers report
Steps == DOMAIN STEP_PROGRESS

InitProgress ==
    /\ env \in Envs
    /\ store = Empty
    /\ progress_table = Empty
    /\ pg_call = None
    /\ pg_before = Empty
    /\ pg_ret = FALSE
    /\ OthersIdleForProgress

\* One call update_progress(interview_id, step); the table update may fail
CallUpdateProgress ==
    /\ \E id \in InterviewIds, step \in Steps, write_ok \in BOOLEAN :
          /\ pg_call' = [interview_id |-> id, step |-> step, write_ok |-> write_ok]
          /\ pg_ret' = update_progress(progress_table, id, step, write_ok).ret
          /\ progress_table' = update_progress(progress_table, id, step, write_ok).table
    /\ pg_before' = progress_table
    /\ UNCHANGED <<env, store, ckVars, roVars, csVars, agVars, mgVars, trVars, drVars, lbVars, wkVars, whVars, dlVars>>

NextProgress == CallUpdateProgress

SpecProgress == InitProgress /\ [][NextProgress]_vars

\* The last call could write: it had an interview_id and a table name
CouldWrite == pg_call.interview_id /= NoId /\ env.TABLE_NAME /= ""

\* C12: update_progress returns to its caller in every case; it returns
\* False and leaves the table alone when interview_id is empty, when no table
\* name is configured and when the table update fails; it returns True only
\* when the update succeeded, and then the row holds the step and its
\* progress value.
C12_BestEffort ==
    pg_call /= None =>
        /\ pg_ret \in BOOLEAN
        /\ ~CouldWrite => pg_ret = FALSE /\ progress_table = pg_before
        /\ ~pg_call.write_ok => pg_ret = FALSE /\ progress_table = pg_before
        /\ pg_ret = TRUE <=> (CouldWrite /\ pg_call.write_ok)
        /\ pg_ret = TRUE =>
              /\ progress_table[pg_call.interview_id].current_step = pg_call.step
              /\ progress_table[pg_call.interview_id].progress = STEP_PROGRESS[pg_call.step]
              /\ \A id \in DOMAIN pg_before \ {pg_call.interview_id} :
                    progress_table[id] = pg_before[id]

\* C12 witness: with a row already written, a call whose table update fails
\* returned False
C12_Witness ==
    /\ pg_call /= None
    /\ CouldWrite
    /\ ~pg_call.write_ok
    /\ pg_ret = FALSE
    /\ pg_before /= Empty

\* C13: the progress stored for a run never decreases, whatever the order
\* of the update_progress calls of the stage handlers.
C13_ProgressMonotone ==
    pg_call /= None =>
        \A id \in DOMAIN pg_before :
            progress_table[id].progress >= pg_before[id].progress

(***************************************************************************)
(* Pipeline Driver (spec sections 4.7 and 5; its code is not among the     *)
(* source files).  The driver runs the stages in order; a fan-out stage    *)
(* has several items that run in parallel; a failed item is invoked again  *)
(* up to max_retries times, after that the run is FAILED.                  *)
(***************************************************************************)

Stages ==
    <<"Extractor", "Chunker", "Diarizer", "Merger", "Splitter", "Transcriber",
      "Aggregator">>

\* The fan-out stages
FanOut == {"Diarizer", "Transcriber"}

\* max_retries, the per-item retry cap
MaxRetries == 3

\* Largest number of items of a fan-out stage
MaxItems == 2

\* Mutant of StageComplete: one completed item is enough
StageCompleteAny(items) == \E i \in DOMAIN items : items[i] = "done"

\* Every item of the stage completed successfully
StageComplete(items) == \A i \in DOMAIN items : items[i] = "done"

InitDriver ==
    /\ dr_status = "running"
    /\ dr_stage = 1
    /\ dr_items = [s \in 1..Len(Stages) |-> IF s = 1 THEN <<"pending">> ELSE <<>>]
    /\ dr_attempts = <<0>>
    /\ OthersIdleForDriver

\* The driver hands item i of the current stage to a worker
StartItem(i) ==
    /\ dr_status = "running"
    /\ dr_items[dr_stage][i] = "pending"
    /\ dr_items' = [dr_items EXCEPT ![dr_stage][i] = "running"]
    /\ dr_attempts' = [dr_attempts EXCEPT ![i] = @ + 1]
    /\ UNCHANGED <<dr_status, dr_stage, ckVars, roVars, ioVars, csVars, agVars,
                   mgVars, trVars, pgVars, lbVars, wkVars, whVars, dlVars>>

\* The handler of item i returns its manifest
ItemSucceeds(i) ==
    /\ dr_items[dr_stage][i] = "running"
    /\ dr_items' = [dr_items EXCEPT ![dr_stage][i] = "done"]
    /\ UNCHANGED <<dr_status, dr_stage, dr_attempts, ckVars, roVars, ioVars, csVars,
                   agVars, mgVars, trVars, pgVars, lbVars, wkVars, whVars, dlVars>>

\* The handler of item i fails: the driver invokes it again, or marks the
\* run FAILED when the item has been re-invoked max_retries times
ItemFails(i) ==
    /\ dr_items[dr_stage][i] = "running"
    /\ IF dr_status = "running" /\ dr_attempts[i] <= MaxRetries
       THEN /\ dr_items' = [dr_items EXCEPT ![dr_stage][i] = "pending"]
            /\ UNCHANGED dr_status
       ELSE /\ dr_items' = [dr_items EXCEPT ![dr_stage][i] = "failed"]
            /\ dr_status' = "failed"
    /\ UNCHANGED <<dr_stage, dr_attempts, ckVars, roVars, ioVars, csVars,
                   agVars, mgVars, trVars, pgVars, lbVars, wkVars, whVars, dlVars>>

\* The current stage is complete: the driver begins the next stage
BeginNextStage ==
    /\ dr_status = "running"
    /\ dr_stage < Len(Stages)
    /\ StageComplete(dr_items[dr_stage])
    /\ \E n \in 1..MaxItems :
          /\ Stages[dr_stage + 1] \notin FanOut => n = 1
          /\ dr_items' = [dr_items EXCEPT ![dr_stage + 1] = [i \in 1..n |-> "pending"]]
          /\ dr_attempts' = [i \in 1..n |-> 0]
    /\ dr_stage' = dr_stage + 1
    /\ UNCHANGED <<dr_status, ckVars, roVars, ioVars, csVars, agVars, mgVars, trVars,
                   pgVars, lbVars, wkVars, whVars, dlVars>>

\* The last stage is complete
CompleteRun ==
    /\ dr_status = "running"
    /\ dr_stage = Len(Stages)
    /\ StageComplete(dr_items[dr_stage])
    /\ dr_status' = "completed"
    /\ UNCHANGED <<dr_stage, dr_items, dr_attempts, ckVars, roVars, ioVars, csVars,
                   agVars, mgVars, trVars, pgVars, lbVars, wkVars, whVars, dlVars>>

NextDriver ==
    \/ \E i \in 1..MaxItems :
          /\ i \in DOMAIN dr_items[dr_stage]
          /\ (StartItem(i) \/ ItemSucceeds(i) \/ ItemFails(i))
    \/ BeginNextStage
    \/ CompleteRun

SpecDriver == InitDriver /\ [][NextDriver]_vars

\* Some item of stage s has been handed to a worker
Started(s) == \E i \in DOMAIN dr_items[s] : dr_items[s][i] /= "pending"

\* The number of the stage with the given name
StageOf(name) == CHOOSE s \in 1..Len(Stages) : Stages[s] = name

\* Every item of stage s is "done"
AllDone(s) == \A i \in DOMAIN dr_items[s] : dr_items[s][i] = "done"

\* C14: no item of a stage starts before every item of the stage before it
\* has completed successfully; so the Merger starts only after all Diarizer
\* items completed and the Aggregator only after all Transcriber items
\* completed; a run the driver aborted starts nothing after the failed stage.
C14_StagesInOrder ==
    /\ \A s \in 2..Len(Stages) : Started(s) => AllDone(s - 1)
    /\ Started(StageOf("Merger")) => AllDone(StageOf("Diarizer"))
    /\ Started(StageOf("Aggregator")) => AllDone(StageOf("Transcriber"))
    /\ dr_status = "failed" => \A s \in (dr_stage + 1)..Len(Stages) : ~Started(s)

\* C14 witness: the Aggregator has started after a Transcriber stage of two
\* items
C14_Witness ==
    /\ dr_stage = StageOf("Aggregator")
    /\ Started(dr_stage)
    /\ Len(dr_items[StageOf("Transcriber")]) = 2

(***************************************************************************)
(* Event webhook (event_handler/lambda_function.py).  One process handles  *)
(* a sequence of deliveries; processed_messages is the module-level dict   *)
(* of the process.  An event is described by what its body holds; resource *)
(* names are given as the list of their parts between the slashes.         *)
(***************************************************************************)

\* Largest number of deliveries to one process
MaxDeliveries == 2

\* "" stands for a message without messageId (line 59: the default)
MessageIds == {"", "msg-1", "msg-2"}

FileGenerated == "google.workspace.meet.recording.v2.fileGenerated"

ConferenceStarted == "google.workspace.meet.conference.v2.started"

ConferenceEnded == "google.workspace.meet.conference.v2.ended"

EventTypes ==
    {FileGenerated, ConferenceStarted, ConferenceEnded, "google.workspace.meet.unknown.event"}

\* A name of a conference with a meeting, of one without, and a name of
\* another kind
ResourceNames ==
    {<<"conferenceRecords", "conf-1", "recordings", "rec-1">>,
     <<"conferenceRecords", "conf-9", "recordings", "rec-1">>,
     <<"spaces", "conf-1">>}

\* The call of the event handler that raises: none, table.query,
\* table.update_item or lambda_client.invoke
FailuresOf(event_type, name) ==
    IF event_type \notin {FileGenerated, ConferenceStarted, ConferenceEnded}
       \/ name[1] /= "conferenceRecords"
    THEN {"none"}
    ELSE IF name[2] /= "conf-1" THEN {"none", "query"}
    ELSE IF event_type = FileGenerated THEN {"none", "query", "update", "invoke"}
    ELSE {"none", "query", "update"}

PubSubEvent(body, message_id, data, event_type, name, fails) ==
    [body |-> body, message_id |-> message_id, data |-> data,
     event_type |-> event_type, name |-> name, fails |-> fails]

\* The events explored.  body: "missing" (no or empty body), "invalid_json",
\* "not_object" (JSON that is not an object), "no_message",
\* "message_not_object" (message is a string), "envelope".  data: "missing",
\* "undecodable" (bad base64, bad UTF-8 or bad JSON), "not_object" (decodes
\* to JSON that is not an object), "object".
Events ==
    {PubSubEvent(b, "", "missing", "", <<>>, "none") :
        b \in {"missing", "invalid_json", "not_object", "no_message", "message_not_object"}}
    \cup {PubSubEvent("envelope", id, d, "", <<>>, "none") :
             id \in MessageIds, d \in {"missing", "undecodable", "not_object"}}
    \cup UNION {{PubSubEvent("envelope", id, "object", t, n, f) : f \in FailuresOf(t, n)} :
                   id \in MessageIds, t \in EventTypes, n \in ResourceNames}

\* Lines 33-71: the outcome of parse_pubsub_message
parse_pubsub_message(event) ==
    IF event.body = "missing"
    THEN [raised |-> "ValueError", message_data |-> None, message_id |-> ""]
    ELSE IF event.body = "invalid_json"
    THEN [raised |-> "ValueError", message_data |-> None, message_id |-> ""]
    ELSE IF event.body = "not_object"
    THEN [raised |-> "AttributeError", message_data |-> None, message_id |-> ""]
    ELSE IF event.body = "no_message"
    THEN [raised |-> "ValueError", message_data |-> None, message_id |-> ""]
    ELSE IF event.body = "message_not_object"
    THEN [raised |-> "AttributeError", message_data |-> None, message_id |-> ""]
    ELSE IF event.data \in {"missing", "undecodable"}
    THEN [raised |-> "ValueError", message_data |-> None, message_id |-> ""]
    ELSE [raised       |-> "none",
          message_data |-> [is_object |-> event.data = "object",
                            eventType |-> event.event_type,
                            name      |-> event.name],
          message_id   |-> event.message_id]

\* Mutant of is_duplicate_message: no message is a duplicate
is_duplicate_message_never(processed, message_id) == FALSE

\* Lines 74-87
is_duplicate_message(processed, message_id) == message_id \in processed

\* Lines 90-97
mark_message_processed(processed, message_id) == processed \cup {message_id}

\* Lines 100-113
extract_conference_record_id(parts) ==
    IF Len(parts) >= 2 /\ parts[1] = "conferenceRecords" THEN parts[2] ELSE ""

NoMeeting == ""

\* Lines 116-148: the meeting_id found, NoMeeting if there is none
find_meeting_by_conference_record(table, conference_record_id) ==
    IF \E m \in DOMAIN table : table[m].meet_space_id = "spaces/" \o conference_record_id
    THEN CHOOSE m \in DOMAIN table :
             table[m].meet_space_id = "spaces/" \o conference_record_id
    ELSE IF \E m \in DOMAIN table : table[m].meet_space_id = conference_record_id
    THEN CHOOSE m \in DOMAIN table : table[m].meet_space_id = conference_record_id
    ELSE NoMeeting

Effects(table, invs, raised) == [table |-> table, invocations |-> invs, raised |-> raised]

\* Lines 175-199: the update of the table and the invocation, for the
\* meeting found
TriggerDownload(table, invs, meeting_id, recording_name, fails) ==
    IF fails = "update" THEN Effects(table, invs, TRUE)
    ELSE IF fails = "invoke"
    THEN Effects([table EXCEPT ![meeting_id].recording_status = "DOWNLOADING",
                               ![meeting_id].recording_name = recording_name],
                 invs, TRUE)
    ELSE Effects([table EXCEPT ![meeting_id].recording_status = "DOWNLOADING",
                               ![meeting_id].recording_name = recording_name],
                 Append(invs, [action         |-> "download_recording",
                               user_id        |-> table[meeting_id].user_id,
                               meeting_id     |-> meeting_id,
                               recording_name |-> recording_name]),
                 FALSE)

\* Lines 151-201
handle_recording_file_generated(table, invs, name, fails) ==
    IF extract_conference_record_id(name) = "" THEN Effects(table, invs, FALSE)
    ELSE IF fails = "query" THEN Effects(table, invs, TRUE)
    ELSE IF find_meeting_by_conference_record(table, extract_conference_record_id(name))
                = NoMeeting
    THEN Effects(table, invs, FALSE)
    ELSE TriggerDownload(table, invs,
             find_meeting_by_conference_record(table, extract_conference_record_id(name)),
             name, fails)

\* Lines 204-233 and 236-265: the two handlers differ in the status only
HandleConference(table, invs, name, fails, status) ==
    IF extract_conference_record_id(name) = "" THEN Effects(table, invs, FALSE)
    ELSE IF fails = "query" THEN Effects(table, invs, TRUE)
    ELSE IF find_meeting_by_conference_record(table, extract_conference_record_id(name))
                = NoMeeting
    THEN Effects(table, invs, FALSE)
    ELSE IF fails = "update" THEN Effects(table, invs, TRUE)
    ELSE Effects([table EXCEPT ![find_meeting_by_conference_record(
                                     table, extract_conference_record_id(name))]
                                 .recording_status = status],
                 invs, FALSE)

\* Lines 204-233
handle_conference_started(table, invs, name, fails) ==
    HandleConference(table, invs, name, fails, "RECORDING")

\* Lines 236-265
handle_conference_ended(table, invs, name, fails) ==
    HandleConference(table, invs, name, fails, "PROCESSING")

\* Lines 302-313: the dispatch on the event type
Dispatch(table, invs, message_data, fails) ==
    IF message_data.eventType = FileGenerated
    THEN handle_recording_file_generated(table, invs, message_data.name, fails)
    ELSE IF message_data.eventType = ConferenceStarted
    THEN handle_conference_started(table, invs, message_data.name, fails)
    ELSE IF message_data.eventType = ConferenceEnded
    THEN handle_conference_ended(table, invs, message_data.name, fails)
    ELSE Effects(table, invs, FALSE)

Response(status, text) == [statusCode |-> status, body |-> text]

\* Lines 276-284: the parse raised; only ValueError is caught
ParseFailed(parsed) ==
    /\ processed_messages' = processed_messages
    /\ meetings_table' = meetings_table
    /\ invocations' = invocations
    /\ wh_runs' = wh_runs
    /\ IF parsed.raised = "ValueError"
       THEN wh_response' = Response(400, "error") /\ wh_raised' = "none"
       ELSE wh_response' = None /\ wh_raised' = parsed.raised

\* Lines 287-291
DuplicateAcknowledged ==
    /\ processed_messages' = processed_messages
    /\ meetings_table' = meetings_table
    /\ invocations' = invocations
    /\ wh_runs' = wh_runs
    /\ wh_response' = Response(200, "Duplicate message, acknowledged")
    /\ wh_raised' = "none"

\* Lines 294-323: the message is marked, then handled; message_data.get
\* (line 297) is outside the try and raises on data that is not an object
MarkAndHandle(parsed, fails, effects) ==
    /\ processed_messages' = mark_message_processed(processed_messages, parsed.message_id)
    /\ wh_runs' = [wh_runs EXCEPT ![parsed.message_id] = @ + 1]
    /\ IF ~parsed.message_data.is_object
       THEN /\ meetings_table' = meetings_table
            /\ invocations' = invocations
            /\ wh_response' = None
            /\ wh_raised' = "AttributeError"
       ELSE /\ meetings_table' = effects.table
            /\ invocations' = effects.invocations
            /\ wh_response' = Response(200, "Event processed")
            /\ wh_raised' = "none"

\* Lines 268-323
HandleEvent(event, parsed) ==
    IF parsed.raised /= "none" THEN ParseFailed(parsed)
    ELSE IF is_duplicate_message(processed_messages, parsed.message_id)
    THEN DuplicateAcknowledged
    ELSE MarkAndHandle(parsed, event.fails,
                       IF parsed.message_data.is_object
                       THEN Dispatch(meetings_table, invocations, parsed.message_data,
                                     event.fails)
                       ELSE Effects(meetings_table, invocations, FALSE))

InitWebhook ==
    /\ processed_messages = {}
    /\ \E space \in {"spaces/conf-1", "conf-1"} :
          meetings_table = [m \in {"mtg-1"} |->
                               [meet_space_id    |-> space,
                                user_id          |-> "user-1",
                                recording_status |-> "SCHEDULED",
                                recording_name   |-> <<>>]]
    /\ invocations = <<>>
    /\ wh_event = None
    /\ wh_response = None
    /\ wh_raised = "none"
    /\ wh_before = None
    /\ wh_runs = [id \in MessageIds |-> 0]
    /\ wh_deliveries = 0
    /\ ChunkerIdle /\ ResolveIdle /\ ClusterIdle /\ IoIdle
    /\ AggregatorIdle /\ MergerIdle /\ TranscriberIdle /\ ProgressIdle /\ DriverIdle
    /\ LabelIdle /\ WorkersIdle /\ DownloadIdle

\* One call of lambda_handler
Deliver ==
    /\ wh_deliveries < MaxDeliveries
    /\ \E event \in Events :
          /\ wh_event' = event
          /\ HandleEvent(event, parse_pubsub_message(event))
    /\ wh_before' = [processed   |-> processed_messages,
                     table       |-> meetings_table,
                     invocations |-> invocations]
    /\ wh_deliveries' = wh_deliveries + 1
    /\ UNCHANGED <<ckVars, roVars, ioVars, csVars, agVars, mgVars, trVars, pgVars, drVars,
                   lbVars, wkVars, dlVars>>

NextWebhook == Deliver

SpecWebhook == InitWebhook /\ [][NextWebhook]_vars

\* The envelope of the last event can be parsed: there is a message object
\* with data that decodes to JSON
Parses == wh_event.body = "envelope" /\ wh_event.data \in {"not_object", "object"}

\* The last call changed neither the meetings table nor the invocations
NoSideEffect ==
    /\ meetings_table = wh_before.table
    /\ invocations = wh_before.invocations

\* C28: each messageId is handled at most once per process: a message whose
\* messageId was already seen is acknowledged with 200 and causes no status
\* update and no download invocation; the messageId is recorded before the
\* event handler runs, so also when the handling raises.
C28_AtMostOncePerMessageId ==
    wh_event /= None =>
        /\ \A id \in DOMAIN wh_runs : wh_runs[id] <= 1
        /\ (Parses /\ wh_event.message_id \in wh_before.processed) =>
              /\ wh_raised = "none"
              /\ wh_response.statusCode = 200
              /\ NoSideEffect
        /\ Parses => wh_event.message_id \in processed_messages

\* C28 witness: the redelivery of a fileGenerated message for a known
\* meeting, whose first handling left the meeting as it was, is acknowledged
\* and triggers nothing
C28_Witness ==
    /\ wh_deliveries = 2
    /\ wh_event.body = "envelope"
    /\ wh_event.data = "object"
    /\ wh_event.message_id = "msg-1"
    /\ wh_event.message_id \in wh_before.processed
    /\ wh_event.event_type = FileGenerated
    /\ wh_event.name = <<"conferenceRecords", "conf-1", "recordings", "rec-1">>
    /\ wh_event.fails = "none"
    /\ wh_response = Response(200, "Duplicate message, acknowledged")
    /\ meetings_table["mtg-1"].recording_status = "SCHEDULED"
    /\ invocations = <<>>

\* C29: the webhook returns 400 exactly when the envelope cannot be parsed,
\* and then records no messageId and has no side effect; every message that
\* parses returns 200, unknown event types and raising handlers included.
C29_Status400IffUnparseable ==
    wh_event /= None =>
        /\ ~Parses <=> (wh_raised = "none" /\ wh_response.statusCode = 400)
        /\ ~Parses => (processed_messages = wh_before.processed /\ NoSideEffect)
        /\ Parses => (wh_raised = "none" /\ wh_response.statusCode = 200)

(***************************************************************************)
(* Download of a Meet recording (download_recording/lambda_function.py),   *)
(* one invocation of lambda_handler with an action other than              *)
(* download_transcript, step by step.  dl_world fixes what the services    *)
(* will answer: the state and the Drive file of the recording, the call    *)
(* that fails, and whether update_item of the meetings table succeeds.     *)
(***************************************************************************)

DownloadEvent(action, user_id, meeting_id, recording_name) ==
    [action |-> action, user_id |-> user_id, meeting_id |-> meeting_id,
     recording_name |-> recording_name]

\* "" stands for a parameter that is missing or empty
DownloadEvents ==
    {DownloadEvent(a, u, m, r) :
        a \in {"", "download_recording", "export_everything"},
        u \in {"", "user-1"}, m \in {"", "mtg-1"}, r \in {"", "rec-1"}}

\* The answers of the services
Worlds ==
    [state    : {"FILE_GENERATED", "STARTED", ""},
     file_ref : {<<"files/", "f1">>, <<"f1">>, <<"files/">>, <<>>},
     fault    : {"none", "meet_api", "drive", "upload"},
     table_ok : BOOLEAN]

\* Lines 206-210: "files/xxx" without its prefix, "" if nothing is left
FileId(file_ref) ==
    IF file_ref = <<>> THEN ""
    ELSE IF file_ref[1] = "files/"
    THEN (IF Len(file_ref) >= 2 THEN file_ref[2] ELSE "")
    ELSE file_ref[1]

\* Line 228: recordings/<user_id>/<meeting_id>/<file_name>
RecordingKey(event) == <<"recordings", event.user_id, event.meeting_id, "recording.mp4">>

DownloadResult(success, error, message, s3_key) ==
    [success |-> success, error |-> error, message |-> message, s3_key |-> s3_key]

\* Mutant of update_meeting_status: the status is left as it is
update_meeting_status_noop(current, status) == current

\* Lines 154-177: the recording_status after a successful update_item
update_meeting_status(current, status) == status

InitDownload ==
    /\ dl_pc = "start"
    /\ dl_event \in DownloadEvents
    /\ dl_world \in Worlds
    /\ dl_status = "DOWNLOADING"
    /\ dl_uploaded = {}
    /\ dl_result = None
    /\ ChunkerIdle /\ ResolveIdle /\ ClusterIdle /\ IoIdle
    /\ AggregatorIdle /\ MergerIdle /\ TranscriberIdle /\ ProgressIdle /\ DriverIdle
    /\ LabelIdle /\ WorkersIdle /\ WebhookIdle

\* Lines 328-362: parameter validation and dispatch
DownloadValidate ==
    /\ dl_pc = "start"
    /\ IF dl_event.action = ""
       THEN /\ dl_result' = DownloadResult(FALSE, "Missing action parameter", "", <<>>)
            /\ dl_pc' = "returned"
       ELSE IF dl_event.user_id = ""
       THEN /\ dl_result' = DownloadResult(FALSE, "Missing user_id parameter", "", <<>>)
            /\ dl_pc' = "returned"
       ELSE IF dl_event.meeting_id = ""
       THEN /\ dl_result' = DownloadResult(FALSE, "Missing meeting_id parameter", "", <<>>)
            /\ dl_pc' = "returned"
       ELSE IF dl_event.action /= "download_recording"
       THEN /\ dl_result' = DownloadResult(FALSE, "Unknown action", "", <<>>)
            /\ dl_pc' = "returned"
       ELSE IF dl_event.recording_name = ""
       THEN /\ dl_result' = DownloadResult(FALSE, "Missing recording_name parameter", "", <<>>)
            /\ dl_pc' = "returned"
       ELSE /\ dl_result' = dl_result
            /\ dl_pc' = "get_recording_info"
    /\ UNCHANGED <<dl_event, dl_world, dl_status, dl_uploaded,
                   ckVars, roVars, ioVars, csVars, agVars, mgVars, trVars, pgVars, drVars,
                   lbVars, wkVars, whVars>>

\* Lines 194-215: the recording is looked up; it may not be ready, or have
\* no Drive file
DownloadGetInfo ==
    /\ dl_pc = "get_recording_info"
    /\ IF dl_world.fault = "meet_api"
       THEN /\ dl_pc' = "except"
            /\ UNCHANGED <<dl_status, dl_result>>
       ELSE IF dl_world.state /= "FILE_GENERATED"
       THEN /\ dl_pc' = "returned"
            /\ dl_result' = DownloadResult(FALSE, "", "Recording not ready. Please retry later.",
                                           <<>>)
            /\ UNCHANGED dl_status
       ELSE IF FileId(dl_world.file_ref) = ""
       THEN IF dl_world.table_ok
            THEN /\ dl_status' = update_meeting_status(dl_status, "FAILED")
                 /\ dl_result' = DownloadResult(FALSE, "No drive file found", "", <<>>)
                 /\ dl_pc' = "returned"
            ELSE /\ dl_pc' = "except"
                 /\ UNCHANGED <<dl_status, dl_result>>
       ELSE /\ dl_pc' = "download"
            /\ UNCHANGED <<dl_status, dl_result>>
    /\ UNCHANGED <<dl_event, dl_world, dl_uploaded,
                   ckVars, roVars, ioVars, csVars, agVars, mgVars, trVars, pgVars, drVars,
                   lbVars, wkVars, whVars>>

\* Lines 217-223: the download from Drive, its exception handled in place
DownloadFromDrive ==
    /\ dl_pc = "download"
    /\ IF dl_world.fault = "drive"
       THEN IF dl_world.table_ok
            THEN /\ dl_status' = update_meeting_status(dl_status, "FAILED")
                 /\ dl_result' = DownloadResult(FALSE, "drive error", "", <<>>)
                 /\ dl_pc' = "returned"
            ELSE /\ dl_pc' = "except"
                 /\ UNCHANGED <<dl_status, dl_result>>
       ELSE /\ dl_pc' = "upload"
            /\ UNCHANGED <<dl_status, dl_result>>
    /\ UNCHANGED <<dl_event, dl_world, dl_uploaded,
                   ckVars, roVars, ioVars, csVars, agVars, mgVars, trVars, pgVars, drVars,
                   lbVars, wkVars, whVars>>

\* Lines 225-230: upload_to_s3
DownloadUpload ==
    /\ dl_pc = "upload"
    /\ IF dl_world.fault = "upload"
       THEN /\ dl_pc' = "except"
            /\ UNCHANGED dl_uploaded
       ELSE /\ dl_uploaded' = dl_uploaded \cup {RecordingKey(dl_event)}
            /\ dl_pc' = "update_completed"
    /\ UNCHANGED <<dl_event, dl_world, dl_status, dl_result,
                   ckVars, roVars, ioVars, csVars, agVars, mgVars, trVars, pgVars, drVars,
                   lbVars, wkVars, whVars>>

\* Lines 232-250: the status is set to COMPLETED and the result returned
DownloadComplete ==
    /\ dl_pc = "update_completed"
    /\ IF dl_world.table_ok
       THEN /\ dl_status' = update_meeting_status(dl_status, "COMPLETED")
            /\ dl_result' = DownloadResult(TRUE, "", "", RecordingKey(dl_event))
            /\ dl_pc' = "returned"
       ELSE /\ dl_pc' = "except"
            /\ UNCHANGED <<dl_status, dl_result>>
    /\ UNCHANGED <<dl_event, dl_world, dl_uploaded,
                   ckVars, roVars, ioVars, csVars, agVars, mgVars, trVars, pgVars, drVars,
                   lbVars, wkVars, whVars>>

\* Lines 363-372: except Exception: the status is set to FAILED if the table
\* can be written, and success = False is returned
DownloadExcept ==
    /\ dl_pc = "except"
    /\ dl_status' = IF dl_world.table_ok
                    THEN update_meeting_status(dl_status, "FAILED")
                    ELSE dl_status
    /\ dl_result' = DownloadResult(FALSE, "exception", "", <<>>)
    /\ dl_pc' = "returned"
    /\ UNCHANGED <<dl_event, dl_world, dl_uploaded,
                   ckVars, roVars, ioVars, csVars, agVars, mgVars, trVars, pgVars, drVars,
                   lbVars, wkVars, whVars>>

NextDownload ==
    \/ DownloadValidate
    \/ DownloadGetInfo
    \/ DownloadFromDrive
    \/ DownloadUpload
    \/ DownloadComplete
    \/ DownloadExcept

SpecDownload == InitDownload /\ [][NextDownload]_vars

\* A download_recording request with all parameters present
AllParametersPresent ==
    /\ dl_event.action = "download_recording"
    /\ dl_event.user_id /= ""
    /\ dl_event.meeting_id /= ""
    /\ dl_event.recording_name /= ""

\* The recording is ready: the Meet API answers with state FILE_GENERATED
RecordingReady == dl_world.fault /= "meet_api" /\ dl_world.state = "FILE_GENERATED"

\* One of the failures happens on the way: Meet API error, missing Drive
\* file, Drive download error, upload error
DownloadFails ==
    \/ dl_world.fault = "meet_api"
    \/ /\ RecordingReady
       /\ \/ dl_world.file_ref \in {<<>>, <<"files/">>}
          \/ dl_world.fault \in {"drive", "upload"}

\* C30: for a download_recording request with all parameters present,
\* recording_status is COMPLETED only after the recording is in the blob
\* store; any failure (Meet API, missing Drive file, Drive download, upload)
\* sets recording_status to FAILED and returns success = False; a recording
\* that is not FILE_GENERATED returns success = False with a retry message
\* and leaves recording_status as it was.
C30_DownloadStatusClaim ==
    (dl_event /= None /\ AllParametersPresent) =>
        /\ dl_status = "COMPLETED" => RecordingKey(dl_event) \in dl_uploaded
        /\ (dl_pc = "returned" /\ DownloadFails) =>
              /\ dl_result.success = FALSE
              /\ dl_status = "FAILED"
        /\ (dl_pc = "returned" /\ dl_world.fault /= "meet_api"
                /\ dl_world.state /= "FILE_GENERATED") =>
              /\ dl_result.success = FALSE
              /\ dl_result.message = "Recording not ready. Please retry later."
              /\ dl_status = "DOWNLOADING"

\* C30 (amended): as C30, but a failure sets recording_status to FAILED only
\* if the meetings table can be written; if it cannot, the status stays as
\* it was and success = False is returned all the same.  A request that
\* returns success = True has set the status to COMPLETED.
C30_DownloadStatusAmended ==
    (dl_event /= None /\ AllParametersPresent) =>
        /\ dl_status = "COMPLETED" => RecordingKey(dl_event) \in dl_uploaded
        /\ (dl_pc = "returned" /\ DownloadFails) =>
              /\ dl_result.success = FALSE
              /\ dl_status = (IF dl_world.table_ok THEN "FAILED" ELSE "DOWNLOADING")
        /\ (dl_pc = "returned" /\ dl_world.fault /= "meet_api"
                /\ dl_world.state /= "FILE_GENERATED") =>
              /\ dl_result.success = FALSE
              /\ dl_result.message = "Recording not ready. Please retry later."
              /\ dl_status = "DOWNLOADING"
        /\ (dl_pc = "returned" /\ dl_result.success) =>
              /\ dl_status = "COMPLETED"
              /\ ~DownloadFails

\* C30 witness: the recording was ready and downloaded, the upload failed,
\* and the request returned with the status FAILED
C30_Witness ==
    /\ dl_pc = "returned"
    /\ AllParametersPresent
    /\ RecordingReady
    /\ dl_world.fault = "upload"
    /\ dl_world.table_ok
    /\ dl_status = "FAILED"
    /\ dl_result.success = FALSE
    /\ dl_uploaded = {}

====
